---- MODULE Spec2Model ----
(***************************************************************************)
(* Model of the skynet-kernel client core.                                 *)
(*                                                                         *)
(* Part 1: progressiveFetch / progressiveFetchHelper                       *)
(*         (libskynetnode progressivefetch, src/unnamed/part_000).         *)
(* Part 2: computeRegistrySignature / verifyRegistrySignature              *)
(*         (src/libs/libskynet/src/registry.ts).                           *)
(* Part 3: taggedRegistryEntryKeys / deriveRegistryEntryID /               *)
(*         entryIDToSkylink / resolverLink (libskynet and libkerneldev     *)
(*         registry.ts).                                                   *)
(* Part 4: seed phrases (src/libs/libskynet/src/seed.ts and                *)
(*         src/unnamed/part_001).                                          *)
(* Part 5: seedToChecksumWords, the skylink bitfield and                   *)
(*         validateSkyfilePath (src/unnamed/part_002).                     *)
(* Part 6: upload (src/libs/libskynetnode/src/upload.ts).                  *)
(* Part 7: readEntry (src/modules/secure-registry/src/index.ts).           *)
(* Part 8: handleMessage of libkmodule                                     *)
(*         (src/libs/libkmodule/src/messages.ts).                          *)
(* Part 9: newKernelQuery / handleResponse of libkmodule                   *)
(*         (src/libs/libkmodule/src/queries.ts, src/unnamed/part_003).     *)
(* Part 10: the queries of the background page                             *)
(*         (src/extension/src/background.ts).                              *)
(* Part 11: the response filter of the background page                     *)
(*         (src/extension/src/background.ts).                              *)
(* Part 12: the bootloader (src/extension-std/src/bootloader.ts).          *)
(***************************************************************************)
EXTENDS Integers, Sequences, FiniteSets, TLC

(***************************************************************************)
(* Bounds.                                                                 *)
(***************************************************************************)
\* longest portal list handed to progressiveFetch
MaxPortals == 3
\* number of progressiveFetch calls made by the callers
MaxCalls == 2

Portals == 1..MaxPortals
Calls == 1..MaxCalls

\* `portal: null` of the failure result
NullPortal == 0

(***************************************************************************)
(* What a portal can answer to one request.  A transport failure rejects   *)
(* the fetch promise; everything else fulfils it.  `verified` is the       *)
(* verdict the caller-supplied verify function gives on the response.      *)
(***************************************************************************)
Statuses == {199, 200, 299, 300, 404}
Is2xx(s) == s >= 200 /\ s < 300

FetchError == [kind |-> "error", status |-> -1, verified |-> FALSE]
InvalidResponse == [kind |-> "invalid", status |-> -1, verified |-> FALSE]
HttpResponses ==
    { [kind |-> "http", status |-> s, verified |-> v] :
        s \in Statuses, v \in BOOLEAN } \
    { [kind |-> "http", status |-> s, verified |-> TRUE] :
        s \in {t \in Statuses : ~Is2xx(t)} }
FulfilledResponses == HttpResponses \cup {InvalidResponse}
NullResponse == [kind |-> "null", status |-> -1, verified |-> FALSE]

\* `"status" in response && typeof response.status === "number"`
HasNumericStatus(r) == r.kind = "http"

VARIABLES
    portals,       \* the caller's array (defaultPortalList); pfm.remainingPortals
                   \* of every call is a reference to this very array
    pfm,           \* per call: the progressiveFetchMidstate (trail)
    pc,            \* per call: "idle", "running", "resolved"
    inflight,      \* per call: the `portal` of every request whose handlers
                   \* have not run yet
    result,        \* per call: the progressiveFetchResult passed to resolve
    resolveCount,  \* per call: number of times resolve has been called
    supplied,      \* per call: contents of the supplied list at call time
    requests       \* per call: portals a request was issued to, in issue order

fetchVars == <<portals, pfm, pc, inflight, result, resolveCount, supplied, requests>>

\* registry part (Part 2)
VARIABLES
    regPc,     \* "start", "signed", "verified"
    entry,     \* the fields handed to computeRegistrySignature
    signed,    \* what computeRegistrySignature returned
    check,     \* the fields handed to verifyRegistrySignature
    verdict    \* what verifyRegistrySignature returned

regVars == <<regPc, entry, signed, check, verdict>>

\* key and entry ID derivation part (Part 3)
VARIABLES
    callOne,   \* the first call to a derivation function: name, arguments, result
    callTwo    \* a second call, to the same function or one of the same family

deriveVars == <<callOne, callTwo>>

\* seed phrase part (Part 4)
VARIABLES
    generated, \* what the seed phrase generator returned
    validated, \* what validSeedPhrase returned for the generated phrase
    typed,     \* a phrase as a user typed it: the generated phrase with an edit
    restored   \* what seedPhraseToSeed returned for the typed phrase

seedVars == <<generated, validated, typed, restored>>

\* the callers of progressiveFetch (Parts 6 and 7)
VARIABLES
    up,        \* per call: the upload whose progressiveFetch call it is
    aq         \* the activeQuery of a readEntry call and its fetch

uploadVars == <<up>>
readVars == <<aq>>

\* message handling: a module (Part 8), the background page of the
\* extension (Parts 9 and 10) and the bootloader (Part 11)
VARIABLES
    km,        \* a message handled by handleMessage of libkmodule
    kq,        \* queriesNonce, queries and the promises of libkmodule
    bg,        \* the background page: its kernel frame and its queries
    flt,       \* a web request and its response filter
    boot       \* the bootloader in the kernel frame

pageVars == <<km, kq, bg, flt, boot>>
appVars == <<uploadVars, readVars, pageVars>>

EmptyMidstate == [portalsFailed |-> <<>>, responsesFailed |-> <<>>, logs |-> <<>>]
NoResult == [success |-> FALSE, portal |-> NullPortal, response |-> NullResponse,
             portalsFailed |-> <<>>, responsesFailed |-> <<>>,
             remainingPortals |-> "unset", logs |-> <<>>]

FetchInit ==
    /\ portals \in {[i \in 1..n |-> i] : n \in 0..MaxPortals}
    /\ pfm = [c \in Calls |-> EmptyMidstate]
    /\ pc = [c \in Calls |-> "idle"]
    /\ inflight = [c \in Calls |-> {}]
    /\ result = [c \in Calls |-> NoResult]
    /\ resolveCount = [c \in Calls |-> 0]
    /\ supplied = [c \in Calls |-> <<>>]
    /\ requests = [c \in Calls |-> <<>>]

\* progressiveFetchHelper taking the last portal of the list (pop for shift)
progressiveFetchHelper_Pop(c, m, fl) ==
    IF Len(portals) = 0
    THEN LET logs2 == Append(m.logs, <<"all portals tried", NullPortal>>) IN
         /\ pfm' = [pfm EXCEPT ![c] = [m EXCEPT !.logs = logs2]]
         /\ result' = [result EXCEPT ![c] =
                [success |-> FALSE, portal |-> NullPortal, response |-> NullResponse,
                 portalsFailed |-> m.portalsFailed,
                 responsesFailed |-> m.responsesFailed,
                 remainingPortals |-> "null", logs |-> logs2]]
         /\ resolveCount' = [resolveCount EXCEPT ![c] = @ + 1]
         /\ pc' = [pc EXCEPT ![c] = "resolved"]
         /\ inflight' = [inflight EXCEPT ![c] = fl]
         /\ UNCHANGED <<portals, requests>>
    ELSE /\ portals' = SubSeq(portals, 1, Len(portals) - 1)
         /\ inflight' = [inflight EXCEPT ![c] = fl \cup {portals[Len(portals)]}]
         /\ requests' = [requests EXCEPT ![c] = Append(@, portals[Len(portals)])]
         /\ pfm' = [pfm EXCEPT ![c] = m]
         /\ pc' = [pc EXCEPT ![c] = "running"]
         /\ UNCHANGED <<result, resolveCount>>

(***************************************************************************)
(* progressiveFetchHelper(pfm, resolve), entered for call c with the       *)
(* midstate m (the trail as the calling handler left it) while the         *)
(* requests fl of the call are still in flight.                            *)
(***************************************************************************)
progressiveFetchHelper(c, m, fl) ==
    IF Len(portals) = 0
    THEN \* out of portals: log, resolve with the failure result, return
         LET logs2 == Append(m.logs, <<"all portals tried", NullPortal>>) IN
         /\ pfm' = [pfm EXCEPT ![c] = [m EXCEPT !.logs = logs2]]
         /\ result' = [result EXCEPT ![c] =
                [success |-> FALSE, portal |-> NullPortal, response |-> NullResponse,
                 portalsFailed |-> m.portalsFailed,
                 responsesFailed |-> m.responsesFailed,
                 remainingPortals |-> "null", logs |-> logs2]]
         /\ resolveCount' = [resolveCount EXCEPT ![c] = @ + 1]
         /\ pc' = [pc EXCEPT ![c] = "resolved"]
         /\ inflight' = [inflight EXCEPT ![c] = fl]
         /\ UNCHANGED <<portals, requests>>
    ELSE \* portal = remainingPortals.shift(); fetch(query, fetchOpts)
         /\ portals' = Tail(portals)
         /\ inflight' = [inflight EXCEPT ![c] = fl \cup {Head(portals)}]
         /\ requests' = [requests EXCEPT ![c] = Append(@, Head(portals))]
         /\ pfm' = [pfm EXCEPT ![c] = m]
         /\ pc' = [pc EXCEPT ![c] = "running"]
         /\ UNCHANGED <<result, resolveCount>>

(***************************************************************************)
(* progressiveFetch(endpoint, fetchOpts, portals): builds the midstate     *)
(* around the caller's array and runs the helper synchronously.            *)
(***************************************************************************)
progressiveFetch(c) ==
    /\ UNCHANGED <<regVars, deriveVars, seedVars, appVars>>
    /\ pc[c] = "idle"
    /\ \A d \in Calls : d < c => pc[d] # "idle"   \* calls are numbered in call order
    /\ supplied' = [supplied EXCEPT ![c] = portals]
    /\ progressiveFetchHelper(c, EmptyMidstate, {})

\* RecordFailure without `pfm.responsesFailed.push(...)`
RecordFailure_NoResponse(m, tag, p, r) ==
    [logs |-> Append(m.logs, <<tag, p>>),
     portalsFailed |-> Append(m.portalsFailed, p),
     responsesFailed |-> m.responsesFailed]

\* the three pushes every failure branch makes before calling the helper
RecordFailure(m, tag, p, r) ==
    [logs |-> Append(m.logs, <<tag, p>>),
     portalsFailed |-> Append(m.portalsFailed, p),
     responsesFailed |-> Append(m.responsesFailed, r)]

(***************************************************************************)
(* .then((response) => ...): the request of call c to portal p is          *)
(* fulfilled with response r.                                              *)
(***************************************************************************)
FetchThen(c, p, r) ==
    /\ p \in inflight[c]
    /\ r \in FulfilledResponses
    /\ UNCHANGED <<supplied, regVars, deriveVars, seedVars, appVars>>
    /\ IF ~HasNumericStatus(r)
       THEN progressiveFetchHelper(c, RecordFailure(pfm[c], "invalid response", p, r),
                                   inflight[c] \ {p})
       ELSE IF r.status < 200 \/ r.status >= 300
       THEN progressiveFetchHelper(c, RecordFailure(pfm[c], "error status", p, r),
                                   inflight[c] \ {p})
       ELSE \* Success! Return the response.
            /\ result' = [result EXCEPT ![c] =
                   [success |-> TRUE, portal |-> p, response |-> r,
                    portalsFailed |-> pfm[c].portalsFailed,
                    responsesFailed |-> pfm[c].responsesFailed,
                    remainingPortals |-> "portals", logs |-> pfm[c].logs]]
            /\ resolveCount' = [resolveCount EXCEPT ![c] = @ + 1]
            /\ pc' = [pc EXCEPT ![c] = "resolved"]
            /\ inflight' = [inflight EXCEPT ![c] = @ \ {p}]
            /\ UNCHANGED <<portals, pfm, requests>>

\* the catch handler without its call of progressiveFetchHelper
FetchCatch_NoRetry(c, p) ==
    /\ p \in inflight[c]
    /\ pfm' = [pfm EXCEPT ![c] = RecordFailure(pfm[c], "fetch error", p, FetchError)]
    /\ inflight' = [inflight EXCEPT ![c] = @ \ {p}]
    /\ UNCHANGED <<portals, pc, result, resolveCount, supplied, requests, regVars, deriveVars, seedVars, appVars>>

(***************************************************************************)
(* .catch((err) => ...): the request of call c to portal p is rejected.    *)
(***************************************************************************)
FetchCatch(c, p) ==
    /\ p \in inflight[c]
    /\ UNCHANGED <<supplied, regVars, deriveVars, seedVars, appVars>>
    /\ progressiveFetchHelper(c, RecordFailure(pfm[c], "fetch error", p, FetchError),
                              inflight[c] \ {p})

(***************************************************************************)
(* Part 2: registry signatures (src/libs/libskynet/src/registry.ts).       *)
(*                                                                         *)
(* Bytes are 0..255 and a Uint8Array is a sequence of bytes.  A bigint is  *)
(* its sign and its little-endian base-256 digits without leading zero     *)
(* digit, so that values up to and beyond 2^64 are represented exactly.    *)
(***************************************************************************)
\* longest registry data drawn byte by byte (the 86/87-byte cases are extra)
MaxDataLen == 1

Null == "null"

Zeros(n) == [i \in 1..n |-> 0]
Fill(n, b) == [i \in 1..n |-> b]

RECURSIVE NatDigits(_)
NatDigits(n) == IF n = 0 THEN <<>> ELSE <<n % 256>> \o NatDigits(n \div 256)
\* BigInt(n) for a non-negative number n
BigInt(n) == [neg |-> FALSE, mag |-> NatDigits(n)]

\* new Uint8Array(n)
NewUint8Array(n) == Zeros(n)
\* target.set(source, offset) throws RangeError unless the source fits
SetFits(target, source, offset) == offset + Len(source) <= Len(target)
SetAt(target, source, offset) ==
    [i \in 1..Len(target) |->
        IF i > offset /\ i <= offset + Len(source) THEN source[i - offset] ELSE target[i]]

\* encodeU64: 8 bytes little-endian, an error for a negative number or one
\* of 2^64 or more
encodeU64(num) ==
    IF num.neg THEN [bytes |-> <<>>, err |-> "expected a positive integer"]
    ELSE IF Len(num.mag) > 8
    THEN [bytes |-> <<>>, err |-> "expected a number no larger than a uint64"]
    ELSE [bytes |-> [i \in 1..8 |-> IF i <= Len(num.mag) THEN num.mag[i] ELSE 0],
          err |-> Null]

\* encodePrefixedBytes: encodeU64(length) followed by the bytes
encodePrefixedBytes(bytes) ==
    LET encodedLen == encodeU64(BigInt(Len(bytes))) IN
    IF encodedLen.err # Null
    THEN [bytes |-> <<>>, err |-> encodedLen.err]
    ELSE [bytes |-> encodedLen.bytes \o bytes, err |-> Null]

\* blake2b as a collision-free hash: the digest stands for its preimage
blake2b(message) == [blake2b |-> message]

\* ed25519: a signature names its signer and the signed message; the public
\* key of secret key k is k; the signer 0 is no key (a malformed signature)
NoSigner == 0
EmptySig == [signer |-> NoSigner, msg |-> blake2b(<<>>)]
ed25519Sign(message, secretKey) ==
    [sig |-> [signer |-> secretKey, msg |-> message], err |-> Null]
ed25519Verify(message, sig, publicKey) ==
    /\ sig.signer # NoSigner
    /\ sig.signer = publicKey
    /\ sig.msg = message

\* outcome of building a buffer: the bytes, or the RangeError a set() that
\* does not fit throws
Bytes(b) == [threw |-> FALSE, bytes |-> b]
RangeError == [threw |-> TRUE, bytes |-> <<>>]

\* the bytes hashed by computeRegistrySignature (registry.ts:34-37), given
\* the two encodings
dataToSign(dataKey, data, encodedData, encodedRevision) ==
    LET buf0 == NewUint8Array(32 + 8 + Len(data) + 8) IN
    IF ~SetFits(buf0, dataKey, 0) THEN RangeError
    ELSE LET buf1 == SetAt(buf0, dataKey, 0) IN
    IF ~SetFits(buf1, encodedData, 32) THEN RangeError
    ELSE LET buf2 == SetAt(buf1, encodedData, 32) IN
    IF ~SetFits(buf2, encodedRevision, 32 + 8 + Len(data)) THEN RangeError
    ELSE Bytes(SetAt(buf2, encodedRevision, 32 + 8 + Len(data)))

\* the bytes hashed by verifyRegistrySignature with the revision written at
\* offset 32 + 8 (the data length left out of the offset)
dataToVerify_RevisionOffset(datakey, data, encodedData, encodedRevision) ==
    LET buf0 == NewUint8Array(32 + 8 + Len(data) + 8) IN
    IF ~SetFits(buf0, datakey, 0) THEN RangeError
    ELSE LET buf1 == SetAt(buf0, datakey, 0) IN
    IF ~SetFits(buf1, encodedData, 32) THEN RangeError
    ELSE LET buf2 == SetAt(buf1, encodedData, 32) IN
    IF ~SetFits(buf2, encodedRevision, 32 + 8) THEN RangeError
    ELSE Bytes(SetAt(buf2, encodedRevision, 32 + 8))

\* the bytes hashed by verifyRegistrySignature (registry.ts:185-188)
dataToVerify(datakey, data, encodedData, encodedRevision) ==
    LET buf0 == NewUint8Array(32 + 8 + Len(data) + 8) IN
    IF ~SetFits(buf0, datakey, 0) THEN RangeError
    ELSE LET buf1 == SetAt(buf0, datakey, 0) IN
    IF ~SetFits(buf1, encodedData, 32) THEN RangeError
    ELSE LET buf2 == SetAt(buf1, encodedData, 32) IN
    IF ~SetFits(buf2, encodedRevision, 32 + 8 + Len(data)) THEN RangeError
    ELSE Bytes(SetAt(buf2, encodedRevision, 32 + 8 + Len(data)))

\* computeRegistrySignature: [sig, err], or an exception (threw)
SigErr(e) == [sig |-> EmptySig, err |-> e, threw |-> FALSE]

\* computeRegistrySignature without the size check of registry.ts:19-21
computeRegistrySignature_NoSizeCheck(secretKey, dataKey, data, revision) ==
    LET encodedData == encodePrefixedBytes(data) IN
    IF encodedData.err # Null THEN SigErr("unable to encode provided registry data")
    ELSE LET encodedRevision == encodeU64(revision) IN
    IF encodedRevision.err # Null THEN SigErr("unable to encode the revision number")
    ELSE LET toSign == dataToSign(dataKey, data, encodedData.bytes, encodedRevision.bytes) IN
    IF toSign.threw THEN [sig |-> EmptySig, err |-> Null, threw |-> TRUE]
    ELSE LET sigHash == blake2b(toSign.bytes) IN
         LET sigErr == ed25519Sign(sigHash, secretKey) IN
    IF sigErr.err # Null THEN SigErr("unable to sign registry entry")
    ELSE [sig |-> sigErr.sig, err |-> Null, threw |-> FALSE]

computeRegistrySignature(secretKey, dataKey, data, revision) ==
    IF Len(data) > 86 THEN SigErr("registry data must be at most 86 bytes")
    ELSE LET encodedData == encodePrefixedBytes(data) IN
    IF encodedData.err # Null THEN SigErr("unable to encode provided registry data")
    ELSE LET encodedRevision == encodeU64(revision) IN
    IF encodedRevision.err # Null THEN SigErr("unable to encode the revision number")
    ELSE LET toSign == dataToSign(dataKey, data, encodedData.bytes, encodedRevision.bytes) IN
    IF toSign.threw THEN [sig |-> EmptySig, err |-> Null, threw |-> TRUE]
    ELSE LET sigHash == blake2b(toSign.bytes) IN
         LET sigErr == ed25519Sign(sigHash, secretKey) IN
    IF sigErr.err # Null THEN SigErr("unable to sign registry entry")
    ELSE [sig |-> sigErr.sig, err |-> Null, threw |-> FALSE]

\* verifyRegistrySignature: a boolean (ok), or an exception (threw)
Verdict(b) == [ok |-> b, threw |-> FALSE]
Thrown == [ok |-> FALSE, threw |-> TRUE]
verifyRegistrySignature(pubkey, datakey, data, revision, sig) ==
    LET encodedData == encodePrefixedBytes(data) IN
    IF encodedData.err # Null THEN Verdict(FALSE)
    ELSE LET encodedRevision == encodeU64(revision) IN
    IF encodedRevision.err # Null THEN Verdict(FALSE)
    ELSE LET toVerify == dataToVerify(datakey, data, encodedData.bytes, encodedRevision.bytes) IN
    IF toVerify.threw THEN Thrown
    ELSE Verdict(ed25519Verify(blake2b(toVerify.bytes), sig, pubkey))

(***************************************************************************)
(* Inputs of the registry functions.                                       *)
(***************************************************************************)
Keys == {1, 2}
DataBytes == {0, 255}
RECURSIVE SeqsUpTo(_, _)
SeqsUpTo(S, n) ==
    IF n = 0 THEN {<<>>}
    ELSE LET shorter == SeqsUpTo(S, n - 1) IN
         shorter \cup {Append(q, b) : q \in {x \in shorter : Len(x) = n - 1}, b \in S}
Datas == SeqsUpTo(DataBytes, MaxDataLen) \cup {Zeros(86), Zeros(87)}
\* 0, 1, 256, 2^64 - 1, 2^64 and -1
Revisions ==
    {BigInt(0), BigInt(1), BigInt(256),
     [neg |-> FALSE, mag |-> Fill(8, 255)],
     [neg |-> FALSE, mag |-> Zeros(8) \o <<1>>],
     [neg |-> TRUE, mag |-> <<1>>]}
InU64(r) == ~r.neg /\ Len(r.mag) <= 8
\* well-formed datakeys, and datakeys of 31, 33 and 49 bytes
GoodDataKeys == {Zeros(32), Fill(32, 1)}
DataKeys == GoodDataKeys \cup {Zeros(31), Zeros(32) \o <<1>>, Zeros(49)}

NoEntry == [secretKey |-> 1, dataKey |-> <<>>, data |-> <<>>, revision |-> BigInt(0)]
NoCheck == [pubkey |-> 1, datakey |-> <<>>, data |-> <<>>, revision |-> BigInt(0),
            sig |-> EmptySig]

RegIdle ==
    /\ regPc = "idle"
    /\ entry = NoEntry
    /\ signed = SigErr(Null)
    /\ check = NoCheck
    /\ verdict = Verdict(FALSE)

RegInit ==
    /\ regPc = "start"
    /\ entry \in [secretKey : Keys, dataKey : GoodDataKeys, data : Datas,
                  revision : Revisions]
    /\ signed = SigErr(Null)
    /\ check = NoCheck
    /\ verdict = Verdict(FALSE)

\* a caller signs the entry
ComputeSignature ==
    /\ regPc = "start"
    /\ signed' = computeRegistrySignature(entry.secretKey, entry.dataKey,
                                          entry.data, entry.revision)
    /\ regPc' = "signed"
    /\ UNCHANGED <<entry, check, verdict, fetchVars, deriveVars, seedVars, appVars>>

\* a reader verifies fields it received together with the signature returned
\* above (the empty signature when signing failed)
VerifySignature(pk, dk, d, r) ==
    /\ regPc = "signed"
    /\ check' = [pubkey |-> pk, datakey |-> dk, data |-> d, revision |-> r,
                 sig |-> signed.sig]
    /\ verdict' = verifyRegistrySignature(pk, dk, d, r, signed.sig)
    /\ regPc' = "verified"
    /\ UNCHANGED <<entry, signed, fetchVars, deriveVars, seedVars, appVars>>

(***************************************************************************)
(* Part 3: taggedRegistryEntryKeys, deriveRegistryEntryID and the resolver *)
(* link of an entry ID.                                                    *)
(***************************************************************************)
\* longest of the short tags handed to taggedRegistryEntryKeys
MaxTagLen == 1

SEED_BYTES == 16

\* the UTF-8 bytes of one UTF-16 code unit (no surrogates among the inputs)
Utf8(u) ==
    IF u < 128 THEN <<u>>
    ELSE IF u < 2048 THEN <<192 + (u \div 64), 128 + (u % 64)>>
    ELSE <<224 + (u \div 4096), 128 + ((u \div 64) % 64), 128 + (u % 64)>>

\* new TextEncoder().encode(str), a string being its UTF-16 code units
RECURSIVE TextEncoderEncode(_)
TextEncoderEncode(str) ==
    IF str = <<>> THEN <<>>
    ELSE IF Len(str) = 1 THEN Utf8(str[1])
    ELSE LET half == Len(str) \div 2 IN
         TextEncoderEncode(SubSeq(str, 1, half))
             \o TextEncoderEncode(SubSeq(str, half + 1, Len(str)))

\* sha512 as a collision-free hash: the digest stands for its preimage
sha512(message) == [sha512 |-> message]

\* digest.slice(start, end): the truncated digest stands for the digest
slice(digest, start, end) == [slice |-> <<start, end>>, of |-> digest]

\* ed25519KeypairFromEntropy: the keypair stands for its 32 bytes of entropy
ed25519KeypairFromEntropy(entropy) ==
    IF entropy.slice[2] - entropy.slice[1] # 32
    THEN [keypair |-> <<>>, err |-> "entropy has wrong length"]
    ELSE [keypair |-> [publicKey |-> [publicKeyOf |-> entropy],
                       secretKey |-> [secretKeyOf |-> entropy]],
          err |-> Null]

\* `new Uint8Array(0)`, `{} as Ed25519Keypair` and the empty keypair nkp
nu8 == <<>>
EmptyObject == <<>>
nkp == [publicKey |-> nu8, secretKey |-> nu8]

\* entropyInput that leaves the keypair tag out
entropyInput_SeedOnly(seed, keypairTag) ==
    SetAt(NewUint8Array(Len(seed)), seed, 0)

\* the bytes hashed into the keypair entropy: seed ++ keypairTag
entropyInput(seed, keypairTag) ==
    SetAt(SetAt(NewUint8Array(Len(keypairTag) + Len(seed)), seed, 0),
          keypairTag, Len(seed))

\* the bytes hashed into the datakey: seed, one byte holding the length of
\* the keypair tag (a Uint8Array element keeps the value modulo 256), the
\* keypair tag and the datakey tag
datakeyInput(seed, keypairTag, datakeyTag) ==
    LET buf0 == NewUint8Array(Len(seed) + 1 + Len(keypairTag) + Len(datakeyTag))
        keypairLen == <<Len(keypairTag) % 256>>
        buf1 == SetAt(buf0, seed, 0)
        buf2 == SetAt(buf1, keypairLen, Len(seed))
        buf3 == SetAt(buf2, keypairTag, Len(seed) + 1)
    IN  SetAt(buf3, datakeyTag, Len(seed) + 1 + Len(keypairTag))

KeysErr(kp, e) == [keypair |-> kp, datakey |-> nu8, err |-> e]

\* the derivation proper, after the input checks (same code in both libraries)
DeriveTaggedKeys(errKeypair, seed, keypairTagStr, datakeyTagStr) ==
    LET keypairTag == TextEncoderEncode(keypairTagStr)
        keypairEntropy == sha512(entropyInput(seed, keypairTag))
        datakeyTag == TextEncoderEncode(datakeyTagStr)
        datakeyEntropy == sha512(datakeyInput(seed, keypairTag, datakeyTag))
        kpfe == ed25519KeypairFromEntropy(slice(keypairEntropy, 0, 32))
    IN  IF kpfe.err # Null THEN KeysErr(errKeypair, "unable to derive keypair")
        ELSE [keypair |-> kpfe.keypair, datakey |-> slice(datakeyEntropy, 0, 32),
              err |-> Null]

\* taggedRegistryEntryKeys without the check of the seed length
taggedRegistryEntryKeys_NoSeedCheck(seed, keypairTagStr, datakeyTagStr) ==
    IF Len(keypairTagStr) > 255
    THEN KeysErr(EmptyObject, "keypairTag must be less than 256 characters")
    ELSE DeriveTaggedKeys(EmptyObject, seed, keypairTagStr, datakeyTagStr)

\* taggedRegistryEntryKeys of libskynet; an omitted datakeyTagStr is the
\* empty string
taggedRegistryEntryKeys(seed, keypairTagStr, datakeyTagStr) ==
    IF Len(seed) # SEED_BYTES THEN KeysErr(EmptyObject, "seed has the wrong length")
    ELSE IF Len(keypairTagStr) > 255
    THEN KeysErr(EmptyObject, "keypairTag must be less than 256 characters")
    ELSE DeriveTaggedKeys(EmptyObject, seed, keypairTagStr, datakeyTagStr)

\* taggedRegistryEntryKeys of libkerneldev
libkerneldev_taggedRegistryEntryKeys(seed, keypairTagStr, datakeyTagStr) ==
    IF Len(seed) # SEED_BYTES THEN KeysErr(nkp, "seed has the wrong length")
    ELSE IF Len(keypairTagStr) > 255
    THEN KeysErr(nkp, "keypairTag must be less than 256 characters")
    ELSE DeriveTaggedKeys(nkp, seed, keypairTagStr, datakeyTagStr)

\* the characters "ed25519"
Specifier == <<101, 100, 50, 53, 53, 49, 57>>

\* encoding with a specifier field of 7 bytes
encoding_Specifier7(pubkey, datakey) ==
    LET buf0 == NewUint8Array(7 + 8 + 32 + 32)
        buf1 == SetAt(buf0, Specifier, 0)
        buf2 == SetAt(buf1, encodeU64(BigInt(32)).bytes, 7)
        buf3 == SetAt(buf2, pubkey, 7 + 8)
    IN  SetAt(buf3, datakey, 7 + 8 + 32)

\* encoding with the datakey written over the pubkey
encoding_DatakeyOverPubkey(pubkey, datakey) ==
    LET buf0 == NewUint8Array(16 + 8 + 32 + 32)
        buf1 == SetAt(buf0, Specifier, 0)
        buf2 == SetAt(buf1, encodeU64(BigInt(32)).bytes, 16)
        buf3 == SetAt(buf2, pubkey, 16 + 8)
    IN  SetAt(buf3, datakey, 16 + 8)

\* the bytes hashed by deriveRegistryEntryID: a 16-byte specifier field, the
\* encoded length of the pubkey, the pubkey and the datakey
encoding(pubkey, datakey) ==
    LET buf0 == NewUint8Array(16 + 8 + 32 + 32)
        buf1 == SetAt(buf0, Specifier, 0)
        buf2 == SetAt(buf1, encodeU64(BigInt(32)).bytes, 16)
        buf3 == SetAt(buf2, pubkey, 16 + 8)
    IN  SetAt(buf3, datakey, 16 + 8 + 32)

\* deriveRegistryEntryID (the same code in libskynet and libkerneldev)
deriveRegistryEntryID(pubkey, datakey) ==
    IF Len(pubkey) # 32 THEN [id |-> nu8, err |-> "pubkey is invalid, length is wrong"]
    ELSE IF Len(datakey) # 32
    THEN [id |-> nu8, err |-> "datakey is not a valid hash, length is wrong"]
    ELSE IF encodeU64(BigInt(32)).err # Null
    THEN [id |-> nu8, err |-> "unable to encode pubkey length"]
    ELSE [id |-> blake2b(encoding(pubkey, datakey)), err |-> Null]

\* the base64url alphabet
B64Alphabet ==
    <<"A", "B", "C", "D", "E", "F", "G", "H", "I", "J", "K", "L", "M", "N", "O", "P",
      "Q", "R", "S", "T", "U", "V", "W", "X", "Y", "Z", "a", "b", "c", "d", "e", "f",
      "g", "h", "i", "j", "k", "l", "m", "n", "o", "p", "q", "r", "s", "t", "u", "v",
      "w", "x", "y", "z", "0", "1", "2", "3", "4", "5", "6", "7", "8", "9", "-", "_">>
B64Char(n) == B64Alphabet[n + 1]
IsB64(c) == \E n \in 1..64 : B64Alphabet[n] = c
B64Value(c) == (CHOOSE n \in 1..64 : B64Alphabet[n] = c) - 1

\* bufToB64: base64 with '-' and '_' and without padding; a string is the
\* sequence of its characters
RECURSIVE bufToB64(_)
bufToB64(buf) ==
    IF Len(buf) = 0 THEN <<>>
    ELSE IF Len(buf) = 1
    THEN <<B64Char(buf[1] \div 4), B64Char((buf[1] % 4) * 16)>>
    ELSE IF Len(buf) = 2
    THEN <<B64Char(buf[1] \div 4),
           B64Char((buf[1] % 4) * 16 + (buf[2] \div 16)),
           B64Char((buf[2] % 16) * 4)>>
    ELSE <<B64Char(buf[1] \div 4),
           B64Char((buf[1] % 4) * 16 + (buf[2] \div 16)),
           B64Char((buf[2] % 16) * 4 + (buf[3] \div 64)),
           B64Char(buf[3] % 64)>> \o bufToB64(SubSeq(buf, 4, Len(buf)))

RECURSIVE B64Decode(_)
B64Decode(s) ==
    IF Len(s) <= 1 THEN <<>>
    ELSE LET v == [i \in 1..Len(s) |-> B64Value(s[i])] IN
         IF Len(s) = 2 THEN <<v[1] * 4 + (v[2] \div 16)>>
         ELSE IF Len(s) = 3
         THEN <<v[1] * 4 + (v[2] \div 16), (v[2] % 16) * 16 + (v[3] \div 4)>>
         ELSE <<v[1] * 4 + (v[2] \div 16),
                (v[2] % 16) * 16 + (v[3] \div 4),
                (v[3] % 4) * 64 + v[4]>> \o B64Decode(SubSeq(s, 5, Len(s)))

\* b64ToBuf: the bytes, or an error for a character outside the alphabet or
\* an impossible length
b64ToBuf(b64) ==
    IF (\E i \in 1..Len(b64) : ~IsB64(b64[i])) \/ Len(b64) % 4 = 1
    THEN [buf |-> nu8, err |-> "provided string is not valid base64"]
    ELSE [buf |-> B64Decode(b64), err |-> Null]

\* skylinkToResolverEntryData is a passthrough to b64ToBuf
skylinkToResolverEntryData(skylink) == b64ToBuf(skylink)

LinkOut(l, e, t) == [link |-> l, err |-> e, threw |-> t]

\* entryIDToSkylink with the entry ID written at offset 0
entryIDToSkylink_Offset0(entryID) ==
    LET v2Skylink == NewUint8Array(34) IN
    IF ~SetFits(v2Skylink, entryID, 0) THEN LinkOut(<<>>, Null, TRUE)
    ELSE LinkOut(bufToB64(SetAt(SetAt(v2Skylink, entryID, 0), <<1>>, 0)), Null, FALSE)

\* entryIDToSkylink (libskynet): no length check, set() throws when the
\* entry ID does not fit
entryIDToSkylink(entryID) ==
    LET v2Skylink == NewUint8Array(34) IN
    IF ~SetFits(v2Skylink, entryID, 2) THEN LinkOut(<<>>, Null, TRUE)
    ELSE LinkOut(bufToB64(SetAt(SetAt(v2Skylink, entryID, 2), <<1>>, 0)), Null, FALSE)

\* resolverLink (libkerneldev)
resolverLink(entryID) ==
    IF Len(entryID) # 32
    THEN LinkOut(<<>>, "provided entry ID has the wrong length", FALSE)
    ELSE LET v2Skylink == NewUint8Array(34) IN
         LinkOut(bufToB64(SetAt(SetAt(v2Skylink, entryID, 2), <<1>>, 0)), Null, FALSE)

(***************************************************************************)
(* Inputs of the derivations.  A tag is a string of the characters "1"     *)
(* (one UTF-8 byte) and "e-acute" (two UTF-8 bytes).                       *)
(***************************************************************************)
Seeds == {Zeros(16), Fill(16, 1), Zeros(15), Zeros(17)}
TagChars == {49, 233}
ShortTags == SeqsUpTo(TagChars, MaxTagLen)
\* 128 two-byte characters, 255 characters and 256 characters
KeypairTags == ShortTags \cup {Fill(128, 233), Fill(255, 49), Fill(256, 49)}
DatakeyTags == ShortTags \cup {Fill(128, 233)}
PubKeys == {Zeros(32), Fill(32, 1), Zeros(31), Zeros(33)}
EntryIDs ==
    {Zeros(32), Fill(32, 255), [i \in 1..32 |-> (37 * i + 11) % 256],
     Zeros(31), Zeros(33)}

NoCall == [fn |-> "none", args |-> <<>>, out |-> <<>>]

DeriveIdle ==
    /\ callOne = NoCall
    /\ callTwo = NoCall

KeysFns == {"taggedRegistryEntryKeys", "libkerneldev_taggedRegistryEntryKeys"}
LinkFns == {"entryIDToSkylink", "resolverLink"}

\* the driver calls twice to compare: the same function with the same seed
\* (as TestRegistry does), or the two link functions
Comparable(a, fn, args) ==
    /\ (a.fn \in LinkFns /\ fn \in LinkFns) \/ a.fn = fn
    /\ a.fn \in KeysFns => a.args[1] = args[1]

Record(fn, args, out) ==
    IF callOne = NoCall
    THEN callOne' = [fn |-> fn, args |-> args, out |-> out] /\ UNCHANGED callTwo
    ELSE /\ callTwo = NoCall
         /\ Comparable(callOne, fn, args)
         /\ callTwo' = [fn |-> fn, args |-> args, out |-> out]
         /\ UNCHANGED callOne

TaggedRegistryEntryKeys(seed, keypairTagStr, datakeyTagStr) ==
    /\ Record("taggedRegistryEntryKeys", <<seed, keypairTagStr, datakeyTagStr>>,
              taggedRegistryEntryKeys(seed, keypairTagStr, datakeyTagStr))
    /\ UNCHANGED <<fetchVars, regVars, seedVars, appVars>>

LibkerneldevTaggedRegistryEntryKeys(seed, keypairTagStr, datakeyTagStr) ==
    /\ Record("libkerneldev_taggedRegistryEntryKeys",
              <<seed, keypairTagStr, datakeyTagStr>>,
              libkerneldev_taggedRegistryEntryKeys(seed, keypairTagStr, datakeyTagStr))
    /\ UNCHANGED <<fetchVars, regVars, seedVars, appVars>>

DeriveRegistryEntryID(pubkey, datakey) ==
    /\ Record("deriveRegistryEntryID", <<pubkey, datakey>>,
              deriveRegistryEntryID(pubkey, datakey))
    /\ UNCHANGED <<fetchVars, regVars, seedVars, appVars>>

EntryIDToSkylink(entryID) ==
    /\ Record("entryIDToSkylink", <<entryID>>, entryIDToSkylink(entryID))
    /\ UNCHANGED <<fetchVars, regVars, seedVars, appVars>>

ResolverLink(entryID) ==
    /\ Record("resolverLink", <<entryID>>, resolverLink(entryID))
    /\ UNCHANGED <<fetchVars, regVars, seedVars, appVars>>

(***************************************************************************)
(* Part 4: seed phrases.  A word is the pair of its first                  *)
(* DICTIONARY_UNIQUE_PREFIX letters (prefix, a number: the dictionary word *)
(* number j starts with the letters number j) and the letters after them   *)
(* (rest, 0 for a dictionary word).                                        *)
(***************************************************************************)
\* longest password handed to the generators
MaxPasswordLen == 2

SEED_ENTROPY_WORDS == 13
\* dictionary.length
DictionaryLength == 1024

dictionary(j) == [prefix |-> j, rest |-> 0]
\* the empty string as a word, and a missing array element
EmptyWord == [prefix |-> -1, rest |-> 0]
Undefined == [prefix |-> -2, rest |-> 0]
\* s.slice(0, DICTIONARY_UNIQUE_PREFIX)
prefix(s) == s.prefix

\* byte i of a sha512 digest: a fixed function of the hashed message
RECURSIVE Mix(_, _)
Mix(message, acc) ==
    IF message = <<>> \/ acc < 0 THEN acc
    ELSE Mix(Tail(message), (acc * 31 + Head(message) + 7) % 256)
DigestByte(digest, i) == Mix(digest.sha512, (i * 101 + 13) % 256)
DigestBytes(digest) == [i \in 1..64 |-> DigestByte(digest, i - 1)]

\* every byte of buf read with the byte after it as a 16-bit number
Uint16ArrayFrom_Pairs(buf) ==
    [i \in 1..Len(buf) |-> buf[i] + 256 * buf[(i % Len(buf)) + 1]]

\* Uint16Array.from(buf): one 16-bit number per byte of buf
Uint16ArrayFrom(buf) == [i \in 1..Len(buf) |-> buf[i] % 65536]

\* a string of words: the words with a space between them
Space == [prefix |-> -3, rest |-> 0]
RECURSIVE Join(_)
Join(words) ==
    IF words = <<>> THEN <<>>
    ELSE LET first == IF Head(words) = EmptyWord THEN <<>> ELSE <<Head(words)>> IN
         IF Len(words) = 1 THEN first
         ELSE first \o <<Space>> \o Join(Tail(words))

\* seedPhrase.split(" "): the pieces between the spaces
RECURSIVE SplitFrom(_, _)
SplitFrom(str, piece) ==
    IF str = <<>> THEN <<piece>>
    ELSE IF Head(str) = Space THEN <<piece>> \o SplitFrom(Tail(str), EmptyWord)
    ELSE SplitFrom(Tail(str), Head(str))
Split(str) == SplitFrom(str, EmptyWord)

\* array[i] with i counted from 0: undefined past the end
At(array, i) == IF i < Len(array) THEN array[i + 1] ELSE Undefined

\* the number of the first dictionary word with the prefix of w, or -1
WordIndex(w) ==
    IF \E j \in 0..(DictionaryLength - 1) : prefix(w) = prefix(dictionary(j))
    THEN CHOOSE j \in 0..(DictionaryLength - 1) :
             /\ prefix(w) = prefix(dictionary(j))
             /\ \A k \in 0..(j - 1) : prefix(w) # prefix(dictionary(k))
    ELSE -1

Pow2(n) == 2 ^ n
\* (word & (1 << n)) > 0
BitSet(word, n) == (word \div Pow2(n)) % 2 = 1
\* byte | mask for a mask of one bit
OrBit(byte, mask) == IF (byte \div mask) % 2 = 1 THEN byte ELSE byte + mask

\* every word taken to hold 10 bits
wordBits_Always10(i) == 10

\* bits taken from seed word i: 10, and 8 from the last one
wordBits(i) == IF i = SEED_ENTROPY_WORDS - 1 THEN 8 ELSE 10

\* one pass of the inner loop of seedWordsToSeed; a write past the end of a
\* Uint8Array is dropped.  `written` counts the bits handled and `stores`
\* collects the byte offsets that were assigned.
WriteBit(st, bitSet) ==
    LET bytes1 ==
            IF bitSet /\ st.curByte < Len(st.bytes)
            THEN [st.bytes EXCEPT ![st.curByte + 1] = OrBit(@, Pow2(8 - st.curBit - 1))]
            ELSE st.bytes
        curBit1 == st.curBit + 1
    IN  [bytes |-> bytes1,
         curByte |-> IF curBit1 >= 8 THEN st.curByte + 1 ELSE st.curByte,
         curBit |-> IF curBit1 >= 8 THEN 0 ELSE curBit1,
         written |-> st.written + 1,
         stores |-> IF bitSet THEN st.stores \cup {st.curByte} ELSE st.stores]

RECURSIVE WriteWord(_, _, _, _)
WriteWord(st, word, bits, j) ==
    IF j >= bits \/ st.written < 0 THEN st
    ELSE WriteWord(WriteBit(st, BitSet(word, bits - j - 1)), word, bits, j + 1)

SeedErr(e) ==
    [seed |-> nu8, err |-> e, curByte |-> 0, curBit |-> 0, written |-> 0, stores |-> {}]

RECURSIVE SeedWordsLoop(_, _, _)
SeedWordsLoop(st, seedWords, i) ==
    IF i >= SEED_ENTROPY_WORDS
    THEN [seed |-> st.bytes, err |-> Null, curByte |-> st.curByte,
          curBit |-> st.curBit, written |-> st.written, stores |-> st.stores]
    ELSE LET word == WordIndex(seedWords[i + 1]) IN
         IF word = -1 \/ st.written < 0 THEN SeedErr("word not found in dictionary")
         ELSE SeedWordsLoop(WriteWord(st, word, wordBits(i), 0), seedWords, i + 1)

\* seedWordsToSeed: [seed, err], with the final loop counters
seedWordsToSeed(seedWords) ==
    IF Len(seedWords) # SEED_ENTROPY_WORDS
    THEN SeedErr("Seed words should have length 13")
    ELSE SeedWordsLoop([bytes |-> NewUint8Array(SEED_BYTES), curByte |-> 0,
                        curBit |-> 0, written |-> 0, stores |-> {}],
                       seedWords, 0)

\* word2 taken from bits [8,18) of the hash
word2_BitsFrom8(h) == (((h[2] * 256) % 65536) + h[3]) \div 64

\* the two word numbers taken from the hash h (h[1] is byte 0 of the hash)
word1(h) == (h[1] * 256 + h[2]) \div 64
word2(h) == (((h[2] * 1024) % 65536) + h[3] * 4) \div 64

\* seedToChecksumWords, with h the first bytes of the digest sha512(seed)
seedToChecksumWordsOf(seed, h) ==
    IF Len(seed) # SEED_BYTES
    THEN [one |-> EmptyWord, two |-> EmptyWord, err |-> "seed has the wrong length"]
    ELSE [one |-> dictionary(word1(h)), two |-> dictionary(word2(h)), err |-> Null]

\* seedToChecksumWords: the two checksum words of a seed
seedToChecksumWords(seed) ==
    seedToChecksumWordsOf(seed, [i \in 1..3 |-> DigestByte(sha512(seed), i - 1)])

\* the words of the phrase with the two checksum words exchanged
allWords_ChecksumSwapped(seedWords, checksumOne, checksumTwo) ==
    seedWords \o <<checksumTwo, checksumOne>>

\* [...seedWords, checksumOne, checksumTwo]
allWords(seedWords, checksumOne, checksumTwo) ==
    seedWords \o <<checksumOne, checksumTwo>>

\* the tail of both generators: seed, checksum and phrase of the seed words;
\* the seed is kept next to the returned [seedPhrase, err]
PhraseOfWords(seedWords) ==
    LET seedErr == seedWordsToSeed(seedWords) IN
    IF seedErr.err # Null THEN [phrase |-> <<>>, err |-> seedErr.err, seed |-> nu8]
    ELSE LET checksum == seedToChecksumWords(seedErr.seed) IN
    IF checksum.err # Null THEN [phrase |-> <<>>, err |-> checksum.err, seed |-> nu8]
    ELSE [phrase |-> Join(allWords(seedWords, checksum.one, checksum.two)),
          err |-> Null, seed |-> seedErr.seed]

\* generateSeedPhraseDeterministic (libskynet): the last word is taken from
\* the first quarter of the dictionary
generateSeedPhraseDeterministic(password) ==
    LET u8 == TextEncoderEncode(password)
        buf == DigestBytes(sha512(u8))
        randNums == Uint16ArrayFrom(buf)
        seedWords ==
            [i \in 1..SEED_ENTROPY_WORDS |->
                IF i - 1 = SEED_ENTROPY_WORDS - 1
                THEN dictionary(randNums[i] % (DictionaryLength \div 4))
                ELSE dictionary(randNums[i] % DictionaryLength)]
    IN  PhraseOfWords(seedWords)

\* `null` as a password, and a password string
NullPassword == [null |-> TRUE, str |-> <<>>]
Password(str) == [null |-> FALSE, str |-> str]

\* the wordIndex of entry i of the seed words on the null path of
\* generateSeedPhrase: randNums[i] % dictionary.length
randomWordIndex(random, i) == Uint16ArrayFrom(random)[i] % DictionaryLength

\* generateSeedPhrase (src/unnamed/part_001); random is what randomBytes(24)
\* returns on the null path
generateSeedPhrase(password, random) ==
    LET randNums ==
            IF password.null THEN Uint16ArrayFrom(random)
            ELSE Uint16ArrayFrom(DigestBytes(sha512(TextEncoderEncode(password.str))))
        seedWords ==
            [i \in 1..SEED_ENTROPY_WORDS |-> dictionary(randNums[i] % DictionaryLength)]
    IN  PhraseOfWords(seedWords)

\* validSeedPhrase: [seed, err], or the TypeError of prefix(undefined)
ValidErr(e) == [seed |-> nu8, err |-> e, threw |-> FALSE]

\* validSeedPhrase comparing the first checksum word only
validSeedPhrase_FirstChecksumOnly(seedPhrase) ==
    LET seedWordsAndChecksum == Split(seedPhrase)
        seedWords == SubSeq(seedWordsAndChecksum, 1,
                            IF Len(seedWordsAndChecksum) < SEED_ENTROPY_WORDS
                            THEN Len(seedWordsAndChecksum) ELSE SEED_ENTROPY_WORDS)
        checksumOne == At(seedWordsAndChecksum, SEED_ENTROPY_WORDS)
        seedErr == seedWordsToSeed(seedWords)
    IN  IF seedErr.err # Null THEN ValidErr("unable to parse seed phrase")
        ELSE LET checksum == seedToChecksumWords(seedErr.seed) IN
        IF checksum.err # Null THEN ValidErr("could not compute checksum words")
        ELSE IF checksumOne = Undefined THEN [seed |-> nu8, err |-> Null, threw |-> TRUE]
        ELSE IF prefix(checksumOne) # prefix(checksum.one)
        THEN ValidErr("first checksum word is invalid")
        ELSE [seed |-> seedErr.seed, err |-> Null, threw |-> FALSE]

validSeedPhrase(seedPhrase) ==
    LET seedWordsAndChecksum == Split(seedPhrase)
        seedWords == SubSeq(seedWordsAndChecksum, 1,
                            IF Len(seedWordsAndChecksum) < SEED_ENTROPY_WORDS
                            THEN Len(seedWordsAndChecksum) ELSE SEED_ENTROPY_WORDS)
        checksumOne == At(seedWordsAndChecksum, SEED_ENTROPY_WORDS)
        checksumTwo == At(seedWordsAndChecksum, SEED_ENTROPY_WORDS + 1)
        seedErr == seedWordsToSeed(seedWords)
    IN  IF seedErr.err # Null THEN ValidErr("unable to parse seed phrase")
        ELSE LET checksum == seedToChecksumWords(seedErr.seed) IN
        IF checksum.err # Null THEN ValidErr("could not compute checksum words")
        ELSE IF checksumOne = Undefined THEN [seed |-> nu8, err |-> Null, threw |-> TRUE]
        ELSE IF prefix(checksumOne) # prefix(checksum.one)
        THEN ValidErr("first checksum word is invalid")
        ELSE IF checksumTwo = Undefined THEN [seed |-> nu8, err |-> Null, threw |-> TRUE]
        ELSE IF prefix(checksumTwo) # prefix(checksum.two)
        THEN ValidErr("second checksum word is invalid")
        ELSE [seed |-> seedErr.seed, err |-> Null, threw |-> FALSE]

\* the 128 bits of a seed, most significant bit of byte 0 first
SeedBits(seed) == [n \in 1..(8 * Len(seed)) |->
                      (seed[((n - 1) \div 8) + 1] \div Pow2(7 - ((n - 1) % 8))) % 2]
RECURSIVE BitsValue(_)
BitsValue(bits) ==
    IF bits = <<>> THEN 0 ELSE 2 * BitsValue(SubSeq(bits, 1, Len(bits) - 1)) + bits[Len(bits)]

\* the entropy words of a seed: twelve 10-bit indices and one 8-bit index
SeedToWords(seed) ==
    [i \in 1..SEED_ENTROPY_WORDS |->
        dictionary(BitsValue(SubSeq(SeedBits(seed), 10 * (i - 1) + 1,
                                    IF i = SEED_ENTROPY_WORDS THEN 8 * Len(seed) ELSE 10 * i)))]

\* the checksummed phrase of a seed
PhraseOfSeed(seed) ==
    LET checksum == seedToChecksumWords(seed) IN
    [phrase |-> Join(SeedToWords(seed) \o <<checksum.one, checksum.two>>),
     err |-> checksum.err, seed |-> seed]

(***************************************************************************)
(* Inputs of the seed phrase functions.                                    *)
(***************************************************************************)
PatternSteps == {0, 1, 37, 85, 255}
PatternStarts == {0, 1, 127, 128, 170, 255}
BytePattern(n, a, b) == [i \in 1..n |-> (a * i + b) % 256]
SeedInputs == {BytePattern(SEED_BYTES, a, b) : a \in PatternSteps, b \in PatternStarts}
RandomBufs == {BytePattern(24, a, b) : a \in PatternSteps, b \in PatternStarts}
\* strings of the characters "T" and "e-acute"
PasswordStrs == SeqsUpTo({84, 233}, MaxPasswordLen)
Passwords == {NullPassword} \cup {Password(s) : s \in PasswordStrs}

NoPhrase == [fn |-> "none", input |-> <<>>, phrase |-> <<>>, err |-> Null, seed |-> nu8]
NoValidation == [seed |-> nu8, err |-> "not validated", threw |-> FALSE]

SeedIdle ==
    /\ generated = NoPhrase
    /\ validated = NoValidation
    /\ typed = <<>>
    /\ restored = NoValidation

Generated(fn, input, out) ==
    /\ generated = NoPhrase
    /\ generated' = [fn |-> fn, input |-> input, phrase |-> out.phrase,
                     err |-> out.err, seed |-> out.seed]

\* a caller generates a phrase with generateSeedPhrase
GenerateSeedPhrase(password, random) ==
    /\ Generated("generateSeedPhrase",
                 IF password.null THEN random ELSE password.str,
                 generateSeedPhrase(password, random))
    /\ UNCHANGED <<validated, typed, restored, fetchVars, regVars, deriveVars, appVars>>

\* a caller generates a phrase with generateSeedPhraseDeterministic
GenerateSeedPhraseDeterministic(password) ==
    /\ Generated("generateSeedPhraseDeterministic", password,
                 generateSeedPhraseDeterministic(password))
    /\ UNCHANGED <<validated, typed, restored, fetchVars, regVars, deriveVars, appVars>>

\* a caller writes down the checksummed phrase of a seed
WritePhraseOfSeed(seed) ==
    /\ Generated("PhraseOfSeed", seed, PhraseOfSeed(seed))
    /\ UNCHANGED <<validated, typed, restored, fetchVars, regVars, deriveVars, appVars>>

\* the phrase is handed to validSeedPhrase; a phrase is looked at once, as
\* it was generated or as it was typed
ValidSeedPhrase ==
    /\ generated # NoPhrase
    /\ generated.err = Null
    /\ validated = NoValidation
    /\ restored = NoValidation
    /\ validated' = validSeedPhrase(generated.phrase)
    /\ UNCHANGED <<generated, typed, restored, fetchVars, regVars, deriveVars, appVars>>

\* seedPhraseToSeed: an alias of validSeedPhrase
seedPhraseToSeed(seedPhrase) == validSeedPhrase(seedPhrase)

(***************************************************************************)
(* What a user can type instead of the phrase that was generated: the      *)
(* first n words only, the phrase with something after it, or the phrase   *)
(* with one word exchanged.                                                *)
(***************************************************************************)
\* a word that is in no dictionary, and a longer spelling of a word
NonWord == [prefix |-> DictionaryLength, rest |-> 0]
Spelling(w) == [prefix |-> prefix(w), rest |-> 1]
\* the dictionary word k places after a dictionary word
WordAfter(w, k) == dictionary((prefix(w) + k) % DictionaryLength)

EditedPositions == {1, 12, 13, 14, 15}
FirstCounts == {0, 1, 12, 13, 14, 15}
Edits ==
    {[kind |-> "first", n |-> n] : n \in FirstCounts}
        \cup {[kind |-> "append", n |-> n] : n \in 1..3}
        \cup {[kind |-> k, n |-> i] :
                 k \in {"after1", "after256", "nonword", "spelling", "empty"},
                 i \in EditedPositions}

Exchanged(w, kind) ==
    CASE kind = "after1" -> WordAfter(w, 1)
      [] kind = "after256" -> WordAfter(w, 256)
      [] kind = "nonword" -> NonWord
      [] kind = "spelling" -> Spelling(w)
      [] kind = "empty" -> EmptyWord

Edited(words, edit) ==
    CASE edit.kind = "first" -> SubSeq(words, 1, edit.n)
      [] edit.kind = "append" ->
            words \o SubSeq(<<dictionary(0), NonWord, EmptyWord>>, edit.n, edit.n)
      [] OTHER -> [words EXCEPT ![edit.n] = Exchanged(@, edit.kind)]

\* the user types the generated phrase with an edit and asks for its seed
SeedPhraseToSeed(edit) ==
    /\ generated # NoPhrase
    /\ generated.err = Null
    /\ restored = NoValidation
    /\ validated = NoValidation
    /\ typed' = Join(Edited(Split(generated.phrase), edit))
    /\ restored' = seedPhraseToSeed(typed')
    /\ UNCHANGED <<generated, validated, fetchVars, regVars, deriveVars, appVars>>

(***************************************************************************)
(* Part 5: the content address codec: skylinkV1Bitfield and                *)
(* parseSkylinkBitfield (skylinkbitfield.ts), validateSkyfilePath and      *)
(* validateSkyfileMetadata (src/unnamed/part_002).  A path is the sequence *)
(* of its UTF-16 code units.                                               *)
(***************************************************************************)
\* longest path made of the letters of PathChars
MaxPathLen == 5

\* the sizes where the fetch size of a skylink changes: 4096 apart up to
\* 32768 and then eight to every doubling, up to the sector size 1 << 22
SectorSize == Pow2(22)
Breakpoints ==
    {4096 * k : k \in 1..8}
        \cup {Pow2(14 + mode) + k * Pow2(11 + mode) : mode \in 1..7, k \in 1..8}

\* the number of doublings of 1 << 15 needed to reach dataSize
RECURSIVE ModeFrom(_, _)
ModeFrom(i, dataSize) == IF i < dataSize THEN 1 + ModeFrom(2 * i, dataSize) ELSE 0

\* the number of the fetch size within its mode, counted from 0
downloadNumber(mode, dataSize) ==
    IF mode = 0
    THEN IF dataSize # 0 THEN (dataSize - 1) \div Pow2(12) ELSE 0
    ELSE LET step == Pow2(11 + mode)
             target == dataSize - Pow2(14 + mode)
         IN  IF target # 0 THEN (target - 1) \div step ELSE 0

\* skylinkV1Bitfield: [bitfield, err]; the 16 bits hold, from the lowest
\* bit, two zero bits for version 1, `mode` one bits and a zero bit, three
\* bits of the download number, and the offset 0; low byte first
skylinkV1Bitfield(dataSize) ==
    IF dataSize > SectorSize
    THEN [bitfield |-> nu8, err |-> "dataSize must be smaller than the sector size"]
    ELSE LET mode == ModeFrom(Pow2(15), dataSize)
             bits == (Pow2(mode) - 1) * 4
                         + downloadNumber(mode, dataSize) * Pow2(mode + 3)
         IN  [bitfield |-> <<bits % 256, bits \div 256>>, err |-> Null]

\* the number of one bits at the low end of a number, 8 at most
RECURSIVE LowOnes(_, _)
LowOnes(bitfield, i) ==
    IF i >= 8 \/ bitfield % 2 = 0 THEN 0 ELSE 1 + LowOnes(bitfield \div 2, i + 1)

ParseErr(e) == [version |-> 0, offset |-> 0, fetchSize |-> 0, err |-> e]

\* parseSkylinkBitfield: [version, offset, fetchSize, err]
parseSkylinkBitfield(skylink) ==
    IF Len(skylink) # 34 THEN ParseErr("provided skylink has incorrect length")
    ELSE LET bitfield == skylink[1] + 256 * skylink[2]
             version == (bitfield % 4) + 1
             rest == bitfield \div 4
             mode == LowOnes(rest, 0)
             afterMode == rest \div Pow2(mode + 1)
             fetchSizeIncrement == IF mode > 0 THEN Pow2(11 + mode) ELSE 4096
             fetchSizeStart == IF mode > 0 THEN Pow2(14 + mode) ELSE 0
             fetchSize == ((afterMode % 8) + 1) * fetchSizeIncrement + fetchSizeStart
             offset == (afterMode \div 8) * (4096 * Pow2(mode))
         IN  IF version # 1 /\ version # 2
             THEN ParseErr("provided skylink has unrecognized version")
             ELSE IF version = 2
             THEN IF bitfield % 4 # bitfield
                  THEN ParseErr("provided skylink has unrecognized version")
                  ELSE [version |-> 2, offset |-> 0, fetchSize |-> 0, err |-> Null]
             ELSE IF rest % 256 = 255 \/ mode > 7
             THEN ParseErr("provided skylink has an unrecognized version")
             ELSE IF offset + fetchSize > SectorSize
             THEN ParseErr("provided skylink has an invalid v1 bitfield")
             ELSE [version |-> 1, offset |-> offset, fetchSize |-> fetchSize,
                   err |-> Null]

\* the skylink with the bitfield written behind the root
skylinkBytes_BitfieldLast(bitfield, sectorRoot) ==
    SetAt(SetAt(NewUint8Array(34), sectorRoot, 0), bitfield, 32)

\* skylinkBytes: 34 bytes, the bitfield at 0 and the sector root at 2
skylinkBytes(bitfield, sectorRoot) ==
    SetAt(SetAt(NewUint8Array(34), bitfield, 0), sectorRoot, 2)

\* one trial of TestSkylinkV1Bitfield: the bitfield of a size, written into
\* a skylink and parsed
BitfieldTrial(trial) ==
    LET built == skylinkV1Bitfield(trial) IN
    [built |-> built,
     parsed |-> IF built.err # Null THEN ParseErr("unable to create bitfield")
                ELSE parseSkylinkBitfield(skylinkBytes(built.bitfield, <<>>))]

Slash == 47
Dot == 46
\* path.startsWith(start)
StartsWith(path, start) ==
    Len(path) >= Len(start) /\ SubSeq(path, 1, Len(start)) = start

\* path.split("/")
RECURSIVE PathSplitFrom(_, _)
PathSplitFrom(path, elem) ==
    IF path = <<>> THEN <<elem>>
    ELSE IF Head(path) = Slash THEN <<elem>> \o PathSplitFrom(Tail(path), <<>>)
    ELSE PathSplitFrom(Tail(path), Append(elem, Head(path)))
PathSplit(path) == PathSplitFrom(path, <<>>)

\* the first element of pathElems that is refused, 0 if there is none
FirstBadElem(pathElems) ==
    LET bad == {i \in 1..Len(pathElems) : pathElems[i] \in {<<Dot>>, <<Dot, Dot>>, <<>>}}
    IN  IF bad = {} THEN 0 ELSE CHOOSE i \in bad : \A k \in bad : i <= k

\* validateSkyfilePath without the loop over the path elements
validateSkyfilePath_NoElementCheck(path) ==
    IF path = <<>> THEN "path cannot be blank"
    ELSE IF path = <<Dot, Dot>> THEN "path cannot be .."
    ELSE IF path = <<Dot>> THEN "path cannot be ."
    ELSE IF StartsWith(path, <<Slash>>) THEN "metdata.Filename cannot start with /"
    ELSE IF StartsWith(path, <<Dot, Dot, Slash>>) THEN "metdata.Filename cannot start with ../"
    ELSE IF StartsWith(path, <<Dot, Slash>>) THEN "metdata.Filename cannot start with ./"
    ELSE Null

\* validateSkyfilePath: an error string, or null
validateSkyfilePath(path) ==
    IF path = <<>> THEN "path cannot be blank"
    ELSE IF path = <<Dot, Dot>> THEN "path cannot be .."
    ELSE IF path = <<Dot>> THEN "path cannot be ."
    ELSE IF StartsWith(path, <<Slash>>) THEN "metdata.Filename cannot start with /"
    ELSE IF StartsWith(path, <<Dot, Dot, Slash>>) THEN "metdata.Filename cannot start with ../"
    ELSE IF StartsWith(path, <<Dot, Slash>>) THEN "metdata.Filename cannot start with ./"
    ELSE LET pathElems == PathSplit(path)
             i == FirstBadElem(pathElems)
         IN  IF i = 0 THEN Null
             ELSE IF pathElems[i] = <<Dot>> THEN "path cannot have a . element"
             ELSE IF pathElems[i] = <<Dot, Dot>> THEN "path cannot have a .. element"
             ELSE "path cannot have an empty element, cannot contain //"

(***************************************************************************)
(* Inputs of the codec functions.                                          *)
(***************************************************************************)
\* sizes at, just below and just above every breakpoint, and sizes far
\* above the last one
Sizes ==
    {0, 1, 100, 200}
        \cup {b + d : b \in Breakpoints, d \in {-1, 0, 1}}
        \cup {SectorSize + 4096, Pow2(30), 2147483647}

\* the first bytes of a sha512 digest
HashValues ==
    {<<h0, h1, h2>> : h0 \in {0, 1, 128, 255},
                      h1 \in {0, 1, 63, 64, 128, 192, 255},
                      h2 \in {0, 15, 16, 240, 255}}
ChecksumSeeds == {Fill(SEED_BYTES, 1), Zeros(15), Zeros(17), <<>>}

\* "a", "." and "/"
PathChars == {97, Dot, Slash}
\* "test/subtrial.ext", "test/trial.ext/subtrial.ext", "/sometrial" and
\* "sometrial/" of TestValidateSkyfilePath
TestPaths ==
    {<<116, 101, 115, 116, 47, 115, 117, 98, 116, 114, 105, 97, 108, 46, 101, 120, 116>>,
     <<116, 101, 115, 116, 47, 116, 114, 105, 97, 108, 46, 101, 120, 116, 47,
       115, 117, 98, 116, 114, 105, 97, 108, 46, 101, 120, 116>>,
     <<47, 115, 111, 109, 101, 116, 114, 105, 97, 108>>,
     <<115, 111, 109, 101, 116, 114, 105, 97, 108, 47>>,
     <<97, 47, 46, 46, 47, 97>>, <<46, 46, 47, 97, 47, 97>>}
Paths == SeqsUpTo(PathChars, MaxPathLen) \cup TestPaths

\* a call that is not compared with a second one
RecordOnce(fn, args, out) ==
    /\ callOne = NoCall
    /\ callOne' = [fn |-> fn, args |-> args, out |-> out]
    /\ UNCHANGED callTwo

\* TestSkylinkV1Bitfield runs one trial, and a second one to compare
SkylinkV1Bitfield(trial) ==
    /\ Record("skylinkV1Bitfield", <<trial>>, BitfieldTrial(trial))
    /\ UNCHANGED <<fetchVars, regVars, seedVars, appVars>>

ValidateSkyfilePath(path) ==
    /\ RecordOnce("validateSkyfilePath", <<path>>, [err |-> validateSkyfilePath(path)])
    /\ UNCHANGED <<fetchVars, regVars, seedVars, appVars>>

\* seedToChecksumWords for a seed whose digest starts with the bytes h
SeedToChecksumWords(seed, h) ==
    /\ RecordOnce("seedToChecksumWords", <<seed, h>>, seedToChecksumWordsOf(seed, h))
    /\ UNCHANGED <<fetchVars, regVars, seedVars, appVars>>

(***************************************************************************)
(* Part 6: upload (src/libs/libskynetnode/src/upload.ts).  The file is     *)
(* its length; the metadata is the value of its Filename and the set of    *)
(* the other keys it has.                                                  *)
(***************************************************************************)
NoFilename == [type |-> "undefined", str |-> <<>>]
FilenameString(str) == [type |-> "string", str |-> str]
FilenameNumber == [type |-> "number", str |-> <<>>]

Metadata(filename, keys) == [Filename |-> filename, keys |-> keys]

\* what a validation gives: an error string, null, or an exception
Returned(e) == [err |-> e, threw |-> FALSE]
ThrownTypeError == [err |-> Null, threw |-> TRUE]

\* validateSkyfileMetadata (part_002:43-94); metadata.TryFiles.IsArray is
\* not a function, so the call of it throws a TypeError
validateSkyfileMetadata(metadata) ==
    IF metadata.Filename = NoFilename THEN Returned("metadata.Filename does not exist")
    ELSE IF metadata.Filename.type # "string"
    THEN Returned("metadata.Filename is not a string")
    ELSE IF validateSkyfilePath(metadata.Filename.str) # Null
    THEN Returned("metadata.Filename does not have a valid path")
    ELSE IF "Subfiles" \in metadata.keys
    THEN Returned("cannot upload files that have subfiles")
    ELSE IF "DisableDefaultPath" \in metadata.keys /\ "DefaultPath" \in metadata.keys
    THEN Returned("cannot set both a DefaultPath and also DisableDefaultPath")
    ELSE IF "DefaultPath" \in metadata.keys
    THEN Returned("cannot set a default path if there are no subfiles")
    ELSE IF "TryFiles" \in metadata.keys THEN ThrownTypeError
    ELSE IF "ErrorPages" \in metadata.keys
    THEN Returned("ErrorPages is not supported at this time")
    ELSE Returned(Null)

\* the keys validateSkyfileMetadata looks at besides Filename
SkyfileKeys == {"Subfiles", "DisableDefaultPath", "DefaultPath", "TryFiles", "ErrorPages"}

\* the length of ,"Key":[] in the JSON text: the letters of the key and 6
\* more characters; a key that is none of SkyfileKeys is a key of 14
\* letters
KeyJsonLength(key) ==
    CASE key = "Subfiles" -> 14
      [] key = "DisableDefaultPath" -> 24
      [] key = "DefaultPath" -> 17
      [] key = "TryFiles" -> 14
      [] key = "ErrorPages" -> 16
      [] OTHER -> 20

\* JSON.stringify(metadata).length for a Filename of ASCII letters:
\* {"Filename":"..."} and ,"Key":[] for every other key
MetadataBytesLength(metadata) ==
    15 + Len(metadata.Filename.str)
       + (IF "Subfiles" \in metadata.keys THEN KeyJsonLength("Subfiles") ELSE 0)
       + (IF "DisableDefaultPath" \in metadata.keys
          THEN KeyJsonLength("DisableDefaultPath") ELSE 0)
       + (IF "DefaultPath" \in metadata.keys THEN KeyJsonLength("DefaultPath") ELSE 0)
       + (IF "TryFiles" \in metadata.keys THEN KeyJsonLength("TryFiles") ELSE 0)
       + (IF "ErrorPages" \in metadata.keys THEN KeyJsonLength("ErrorPages") ELSE 0)
       + KeyJsonLength("other") * Cardinality(metadata.keys \ SkyfileKeys)

\* blake2bMerkleRoot(baseSector): 32 bytes, a fixed function of the sector,
\* which is given by the lengths of its parts
blake2bMerkleRoot(metadataBytesLength, fileDataLength) ==
    [i \in 1..32 |-> Mix(<<metadataBytesLength % 256, fileDataLength % 256,
                           fileDataLength \div 65536>>, i)]

\* the skylink upload computes for the file: bufToB64 of the bitfield of
\* the total size and the Merkle root of the base sector
LocalSkylink(fileDataLength, metadata) ==
    LET totalSize == 99 + MetadataBytesLength(metadata) + fileDataLength
        sectorRoot == blake2bMerkleRoot(MetadataBytesLength(metadata), fileDataLength)
        bitfield == skylinkV1Bitfield(totalSize).bitfield
    IN  bufToB64(skylinkBytes(bitfield, sectorRoot))

\* what upload does before it calls progressiveFetch: the reason of the
\* rejection, or null
UploadRefusal(fileDataLength, metadata) ==
    IF fileDataLength > 4 * 1000 * 1000
    THEN "currently only small uploads are supported, please use less than 4 MB"
    ELSE IF validateSkyfileMetadata(metadata).threw THEN "TypeError"
    ELSE IF validateSkyfileMetadata(metadata).err # Null
    THEN "upload is using invalid metadata"
    ELSE IF 99 + MetadataBytesLength(metadata) + fileDataLength > SectorSize
    THEN "error when building the base sector: total sector is too large"
    ELSE IF skylinkV1Bitfield(99 + MetadataBytesLength(metadata) + fileDataLength).err # Null
    THEN "unable to create bitfield for skylink"
    ELSE Null

\* the body of a portal's answer as response.json() gives it
NotJson == [json |-> "SyntaxError", skylink |-> <<>>]
JsonNull == [json |-> "null", skylink |-> <<>>]
JsonWithout == [json |-> "object", skylink |-> <<"undefined">>]
JsonSkylink(skylink) == [json |-> "object", skylink |-> skylink]
\* a skylink no file of the model has
ForeignSkylink == <<"A", "A", "A", "A">>

\* verifyFunction (upload.ts:144-166): an error string, or null
verifyFunction(body, skylink) ==
    IF body.json = "SyntaxError" THEN "unable to read response body"
    ELSE IF body.json = "null" THEN "unable to read response body"
    ELSE IF body = JsonWithout THEN "response is missing the skylink field"
    ELSE IF body.skylink # skylink THEN "wrong skylink was returned"
    ELSE Null

\* the bodies a response can carry: `verified` says that verifyFunction
\* reports no error for it
Bodies(response, skylink) ==
    {body \in {NotJson, JsonNull, JsonWithout, JsonSkylink(ForeignSkylink),
               JsonSkylink(skylink)} :
        response.verified <=> verifyFunction(body, skylink) = Null}

FileDataLengths == {0, 1, 4000000, 4000001}
Metadatas ==
    {Metadata(NoFilename, {}), Metadata(FilenameNumber, {}),
     Metadata(FilenameString(<<97, 47, 46, 46, 47, 97>>), {})}
        \cup {Metadata(FilenameString(<<97>>), keys) :
                keys \in {{}, {"DisableDefaultPath"}, {"Subfiles"},
                          {"DisableDefaultPath", "DefaultPath"},
                          {"DefaultPath"}, {"TryFiles"}, {"ErrorPages"}}}

\* every body a portal can answer an upload of the model with
UploadBodies ==
    {NotJson, JsonNull, JsonWithout, JsonSkylink(ForeignSkylink)}
        \cup {JsonSkylink(LocalSkylink(n, m)) :
                n \in {k \in FileDataLengths : k <= 4000000},
                m \in {x \in Metadatas : x.Filename.type = "string"}}

NoUpload == [state |-> "idle", skylink |-> <<>>, value |-> <<>>]
UploadIdle == up = [c \in Calls |-> NoUpload]

\* resolve(value) and reject(value) of the promise upload returns
Settled(c, state, value) ==
    up' = [up EXCEPT ![c] = [@ EXCEPT !.state = state, !.value = value]]

\* upload(fileData, metadata), the promise executor (upload.ts:18-167): the
\* input is refused, or progressiveFetch is called with defaultPortalList
Upload(c, fileDataLength, metadata) ==
    /\ up[c] = NoUpload
    /\ pc[c] = "idle"
    /\ \A d \in Calls : d < c => up[d] # NoUpload   \* uploads are numbered in call order
    /\ UNCHANGED <<regVars, deriveVars, seedVars, readVars, pageVars>>
    /\ IF UploadRefusal(fileDataLength, metadata) # Null
       THEN /\ up' = [up EXCEPT ![c] =
                        [state |-> "rejected", skylink |-> <<>>,
                         value |-> UploadRefusal(fileDataLength, metadata)]]
            /\ UNCHANGED fetchVars
       ELSE /\ up' = [up EXCEPT ![c] =
                        [state |-> "fetching",
                         skylink |-> LocalSkylink(fileDataLength, metadata),
                         value |-> <<>>]]
            /\ supplied' = [supplied EXCEPT ![c] = portals]
            /\ progressiveFetchHelper(c, EmptyMidstate, {})

\* .then((result) => { result.response.json() ... }) (upload.ts:167-169):
\* there is no look at result.success, and with `response: null` the call
\* of json throws in the handler, which nothing catches
UploadFetched(c) ==
    /\ up[c].state = "fetching"
    /\ pc[c] = "resolved"
    /\ IF result[c].response = NullResponse
       THEN Settled(c, "unhandled", "TypeError")
       ELSE Settled(c, "reading", <<>>)
    /\ UNCHANGED <<fetchVars, regVars, deriveVars, seedVars, readVars, pageVars>>

\* .then((j) => resolve(j.skylink)) and .catch((err) => reject(...))
\* (upload.ts:170-175) for the body of result.response
UploadJson(c, body) ==
    /\ up[c].state = "reading"
    /\ body \in Bodies(result[c].response, up[c].skylink)
    /\ IF body.json = "SyntaxError" \/ body.json = "null"
       THEN Settled(c, "rejected", "unable to read response body, despite verification of response succeeding")
       ELSE Settled(c, "resolved", body.skylink)
    /\ UNCHANGED <<fetchVars, regVars, deriveVars, seedVars, readVars, pageVars>>

(***************************************************************************)
(* Part 7: readEntry of the secure-registry module                         *)
(* (src/modules/secure-registry/src/index.ts).  The module imports         *)
(* progressiveFetch from libskynet: the fetch that hands every 2xx         *)
(* response to the caller's verify function and moves on to the next       *)
(* portal when it reports an error.                                        *)
(***************************************************************************)
\* a string of the wire is its characters
HexDigits == <<"0", "1", "2", "3", "4", "5", "6", "7",
               "8", "9", "a", "b", "c", "d", "e", "f">>
HexValue(ch) == (CHOOSE i \in 1..16 : HexDigits[i] = ch) - 1
IsHexDigit(ch) == \E i \in 1..16 : HexDigits[i] = ch

\* bufToHex: two digits for every byte
RECURSIVE bufToHex(_)
bufToHex(buf) ==
    IF buf = <<>> THEN <<>>
    ELSE <<HexDigits[(Head(buf) \div 16) + 1], HexDigits[(Head(buf) % 16) + 1]>>
            \o bufToHex(Tail(buf))

\* hexToBuf: the bytes, or an error for a string of odd length or with a
\* character that is no hex digit
hexToBuf(hex) ==
    IF Len(hex) % 2 # 0 THEN [buf |-> <<>>, err |-> "input has incorrect length"]
    ELSE IF \E i \in 1..Len(hex) : ~IsHexDigit(hex[i])
    THEN [buf |-> <<>>, err |-> "input has invalid character"]
    ELSE [buf |-> [i \in 1..(Len(hex) \div 2) |->
                     16 * HexValue(hex[2 * i - 1]) + HexValue(hex[2 * i])],
          err |-> Null]

\* the text of a signature: its hex digits, or a text hexToBuf refuses
SigText(sig) == [hex |-> TRUE, sig |-> sig]
NoSigText == [hex |-> FALSE, sig |-> EmptySig]
hexToSig(text) ==
    IF text.hex THEN [buf |-> text.sig, err |-> Null]
    ELSE [buf |-> EmptySig, err |-> "input has invalid character"]

\* a field of a JSON object: absent, or a value with its type
Absent == [type |-> "undefined", val |-> <<>>]
JsonString(chars) == [type |-> "string", val |-> chars]
\* a number: an integer n, or one with a fractional part (n + 1/2)
JsonNumber(n) == [type |-> "number", val |-> <<n, 0>>]
JsonFraction(n) == [type |-> "number", val |-> <<n, 5>>]

\* BigInt(number): a RangeError for a number that is no integer
BigIntOf(num) ==
    IF num.val[2] # 0 THEN [threw |-> TRUE, big |-> BigInt(0)]
    ELSE IF num.val[1] < 0
    THEN [threw |-> FALSE, big |-> [neg |-> TRUE, mag |-> NatDigits(-num.val[1])]]
    ELSE [threw |-> FALSE, big |-> BigInt(num.val[1])]

\* what resp.json() gives: a rejection, null, or an object with its fields
RegNotJson == [json |-> "SyntaxError", data |-> Absent, revision |-> Absent,
               signature |-> Absent]
RegJsonNull == [json |-> "null", data |-> Absent, revision |-> Absent,
                signature |-> Absent]
RegJson(data, revision, signature) ==
    [json |-> "object", data |-> data, revision |-> revision, signature |-> signature]

RegResponse(status, body) == [status |-> status, body |-> body]
RegFetchError == RegResponse(-1, RegNotJson)

ThrownRangeError == [err |-> "RangeError", threw |-> TRUE]

\* verifyDecodedResp without the signature check of index.ts:61-64
verifyDecodedResp_NoSignatureCheck(resp, data, pubkey, datakey) ==
    IF resp.status # 200 THEN Returned("expected 200 response status")
    ELSE IF data.json = "null" THEN ThrownTypeError
    ELSE IF data.data = Absent THEN Returned("expected data field in response")
    ELSE IF data.data.type # "string" THEN Returned("expected data field to be a string")
    ELSE IF data.revision = Absent THEN Returned("expected revision in response")
    ELSE IF data.revision.type # "number" THEN Returned("expected revision to be a number")
    ELSE IF data.signature = Absent THEN Returned("expected signature in response")
    ELSE IF data.signature.type # "string"
    THEN Returned("expected signature to be a string")
    ELSE IF BigIntOf(data.revision).threw THEN ThrownRangeError
    ELSE IF hexToBuf(data.data.val).err # Null
    THEN Returned("could not decode registry data from response")
    ELSE IF hexToSig(data.signature.val).err # Null
    THEN Returned("could not decode signature from response")
    ELSE Returned(Null)

\* verifyDecodedResp (index.ts:22-70): an error string, null, or the
\* exception of `"data" in null`, of BigInt or of verifyRegistrySignature
verifyDecodedResp(resp, data, pubkey, datakey) ==
    IF resp.status # 200 THEN Returned("expected 200 response status")
    ELSE IF data.json = "null" THEN ThrownTypeError
    ELSE IF data.data = Absent THEN Returned("expected data field in response")
    ELSE IF data.data.type # "string" THEN Returned("expected data field to be a string")
    ELSE IF data.revision = Absent THEN Returned("expected revision in response")
    ELSE IF data.revision.type # "number" THEN Returned("expected revision to be a number")
    ELSE IF data.signature = Absent THEN Returned("expected signature in response")
    ELSE IF data.signature.type # "string"
    THEN Returned("expected signature to be a string")
    ELSE IF BigIntOf(data.revision).threw THEN ThrownRangeError
    ELSE IF hexToBuf(data.data.val).err # Null
    THEN Returned("could not decode registry data from response")
    ELSE IF hexToSig(data.signature.val).err # Null
    THEN Returned("could not decode signature from response")
    ELSE LET verified == verifyRegistrySignature(pubkey, datakey,
                             hexToBuf(data.data.val).buf, BigIntOf(data.revision).big,
                             hexToSig(data.signature.val).buf) IN
         IF verified.threw THEN ThrownRangeError
         ELSE IF ~verified.ok THEN Returned("signature mismatch")
         ELSE Returned(Null)

\* verifyRegReadResp (index.ts:74-90): the promise resolves an error string
\* or null; the catch handler turns a rejection of resp.json() and every
\* exception of the then handler into an error
verifyRegReadResp(resp, pubkey, datakey) ==
    IF resp.body.json = "SyntaxError" THEN "unable to decode response"
    ELSE LET errVDR == verifyDecodedResp(resp, resp.body, pubkey, datakey) IN
         IF errVDR.threw THEN "unable to decode response"
         ELSE IF errVDR.err # Null THEN "response failed verification"
         ELSE Null

\* callerInput: a field is absent, a Uint8Array, or something else
InputAbsent == [type |-> "undefined", key |-> 0, bytes |-> <<>>]
InputOther == [type |-> "string", key |-> 0, bytes |-> <<>>]
InputPublicKey(k) == [type |-> "Uint8Array", key |-> k, bytes |-> <<>>]
InputDataKey(b) == [type |-> "Uint8Array", key |-> 0, bytes |-> b]
CallerInput(publicKey, dataKey) == [publicKey |-> publicKey, dataKey |-> dataKey]

\* the input validation of handleReadEntry (index.ts:98-114)
ReadInputErr(data) ==
    IF data.publicKey = InputAbsent THEN "input should contain a publicKey field"
    ELSE IF data.publicKey.type # "Uint8Array"
    THEN "publicKey input should be a Uint8Array"
    ELSE IF data.dataKey = InputAbsent THEN "input should contain a dataKey field"
    ELSE IF data.dataKey.type # "Uint8Array"
    THEN "datakKey input should be a Uint8Array"
    ELSE Null

NoAnswer == [kind |-> "none", exists |-> FALSE, data |-> Absent, revision |-> BigInt(0),
             err |-> Null]
Accept(exists, data, revision) ==
    [kind |-> "accept", exists |-> exists, data |-> data, revision |-> revision,
     err |-> Null]
Reject(err) == [NoAnswer EXCEPT !.kind = "reject", !.err = err]

NoQuery ==
    [state |-> "idle", callerInput |-> CallerInput(InputAbsent, InputAbsent),
     remainingPortals |-> <<>>, portalsFailed |-> <<>>, responsesFailed |-> <<>>,
     success |-> FALSE, response |-> RegFetchError, answer |-> NoAnswer]

\* the entries portals hold: owner, datakey, data and revision, signed by
\* the owner
RegOwner == 1
RegDataKeys == {Zeros(32), Zeros(49)}
GoodBody(dk, d, r) ==
    RegJson(JsonString(bufToHex(d)), JsonNumber(r),
            JsonString(SigText(computeRegistrySignature(RegOwner, dk, d, BigInt(r)).sig)))

\* what a portal can answer a read of the owner's datakey dk with: the
\* entry, the entry under another status, and the entry with one field
\* absent, of another type, undecodable, or taken from another entry or
\* signer; a read of another key or of a datakey of 49 bytes is answered
\* with the entry, a 404 or a body that is no JSON
RegResponses(k, dk) ==
    LET good == GoodBody(dk, <<171>>, 1) IN
    IF k # RegOwner \/ Len(dk) # 32
    THEN {RegResponse(200, good), RegResponse(404, good), RegResponse(200, RegNotJson)}
    ELSE
    {RegResponse(st, good) : st \in {200, 299, 404}}
    \cup {RegResponse(200, b) : b \in
            {RegNotJson, RegJsonNull,
             [good EXCEPT !.data = Absent],
             [good EXCEPT !.data = JsonNumber(171)],
             [good EXCEPT !.data = JsonString(<<"a">>)],
             [good EXCEPT !.data = JsonString(<<"a", "g">>)],
             [good EXCEPT !.data = JsonString(<<"a", "c">>)],
             [good EXCEPT !.revision = Absent],
             [good EXCEPT !.revision = JsonString(<<"1">>)],
             [good EXCEPT !.revision = JsonFraction(1)],
             [good EXCEPT !.revision = JsonNumber(0)],
             [good EXCEPT !.signature = Absent],
             [good EXCEPT !.signature = JsonNumber(1)],
             [good EXCEPT !.signature = JsonString(NoSigText)],
             [good EXCEPT !.signature = JsonString(SigText(
                 computeRegistrySignature(2, dk, <<171>>, BigInt(1)).sig))],
             [good EXCEPT !.signature = JsonString(SigText(
                 computeRegistrySignature(RegOwner, Fill(32, 1), <<171>>, BigInt(1)).sig))]}}
AllRegResponses == UNION {RegResponses(RegOwner, dk) : dk \in RegDataKeys}

CallerInputs ==
    {CallerInput(InputAbsent, InputDataKey(Zeros(32))),
     CallerInput(InputOther, InputDataKey(Zeros(32))),
     CallerInput(InputPublicKey(RegOwner), InputAbsent),
     CallerInput(InputPublicKey(RegOwner), InputOther)}
        \cup {CallerInput(InputPublicKey(k), InputDataKey(dk)) :
                k \in {RegOwner}, dk \in RegDataKeys}
        \cup {CallerInput(InputPublicKey(2), InputDataKey(Zeros(32)))}

ReadIdle == aq = NoQuery
ReadInit ==
    aq \in {[NoQuery EXCEPT !.remainingPortals = [i \in 1..n |-> i]] : n \in 0..MaxPortals}

\* progressiveFetch of libskynet with the midstate q: the next portal is
\* asked, or the failure result is resolved when none is left
ReadFetchNext(q) ==
    IF Len(q.remainingPortals) = 0
    THEN [q EXCEPT !.state = "fetched", !.success = FALSE, !.response = RegFetchError]
    ELSE [q EXCEPT !.state = "fetching"]

\* handleReadEntry(aq) (index.ts:96-127): the input is refused, or the fetch
\* starts
HandleReadEntry(data) ==
    /\ aq.state = "idle"
    /\ aq' = IF ReadInputErr(data) # Null
             THEN [aq EXCEPT !.state = "done", !.callerInput = data,
                             !.answer = Reject(ReadInputErr(data))]
             ELSE ReadFetchNext([aq EXCEPT !.callerInput = data])
    /\ UNCHANGED <<fetchVars, regVars, deriveVars, seedVars, uploadVars, pageVars>>

\* the failure every failing branch of the fetch records before it goes on
ReadFailure(q, resp) ==
    [q EXCEPT !.portalsFailed = Append(@, Head(q.remainingPortals)),
              !.responsesFailed = Append(@, resp),
              !.remainingPortals = Tail(@)]

\* the portal asked answers with resp: a status outside 2xx and an error of
\* verifyFunc (index.ts:122-124) are failures, everything else is the result
ReadFetchThen(resp) ==
    /\ aq.state = "fetching"
    /\ resp \in RegResponses(aq.callerInput.publicKey.key, aq.callerInput.dataKey.bytes)
    /\ aq' = IF ~Is2xx(resp.status)
                \/ verifyRegReadResp(resp, aq.callerInput.publicKey.key,
                                     aq.callerInput.dataKey.bytes) # Null
             THEN ReadFetchNext(ReadFailure(aq, resp))
             ELSE [aq EXCEPT !.state = "fetched", !.success = TRUE, !.response = resp,
                             !.remainingPortals = Tail(@)]
    /\ UNCHANGED <<fetchVars, regVars, deriveVars, seedVars, uploadVars, pageVars>>

\* the request to the portal asked fails
ReadFetchCatch ==
    /\ aq.state = "fetching"
    /\ aq' = ReadFetchNext(ReadFailure(aq, RegFetchError))
    /\ UNCHANGED <<fetchVars, regVars, deriveVars, seedVars, uploadVars, pageVars>>

\* the handler answering exists:false after any failed response
ReadFetched_AnyFailure ==
    /\ aq.state = "fetched"
    /\ aq' = IF aq.success THEN [aq EXCEPT !.state = "parsing"]
             ELSE IF Len(aq.responsesFailed) > 0
             THEN [aq EXCEPT !.state = "done",
                             !.answer = Accept(FALSE, JsonString(<<>>), BigInt(0))]
             ELSE [aq EXCEPT !.state = "done",
                             !.answer = Reject("unable to read registry entry")]
    /\ UNCHANGED <<fetchVars, regVars, deriveVars, seedVars, uploadVars, pageVars>>

\* .then((result) => ...) (index.ts:127-161): a success is read again, a
\* 404 among the failed responses is an entry that does not exist, and
\* everything else is rejected
ReadFetched ==
    /\ aq.state = "fetched"
    /\ aq' = IF aq.success THEN [aq EXCEPT !.state = "parsing"]
             ELSE IF \E i \in 1..Len(aq.responsesFailed) :
                        aq.responsesFailed[i].status = 404
             THEN [aq EXCEPT !.state = "done",
                             !.answer = Accept(FALSE, JsonString(<<>>), BigInt(0))]
             ELSE [aq EXCEPT !.state = "done",
                             !.answer = Reject("unable to read registry entry")]
    /\ UNCHANGED <<fetchVars, regVars, deriveVars, seedVars, uploadVars, pageVars>>

\* result.response.json() of the handler (index.ts:132-144): the body read
\* a second time is the same JSON, or the read fails and the query is
\* rejected
ReadJson(readable) ==
    /\ aq.state = "parsing"
    /\ aq' = IF readable /\ aq.response.body.json = "object"
                /\ aq.response.body.revision.type = "number"
                /\ ~BigIntOf(aq.response.body.revision).threw
             THEN [aq EXCEPT !.state = "done",
                             !.answer = Accept(TRUE, aq.response.body.data,
                                               BigIntOf(aq.response.body.revision).big)]
             ELSE [aq EXCEPT !.state = "done",
                             !.answer = Reject("unable to parse final response despite passing verification")]
    /\ UNCHANGED <<fetchVars, regVars, deriveVars, seedVars, uploadVars, pageVars>>

(***************************************************************************)
(* Part 8: handleMessage of libkmodule                                     *)
(* (src/libs/libkmodule/src/messages.ts).  A handler is what it does when  *)
(* it is called (accept, reject, or the scheduling of a callback, in some  *)
(* order, and possibly a throw at the end) and what its callbacks do.      *)
(***************************************************************************)
\* longest sequence of calls a handler makes before it returns or throws
MaxOps == 3

otherThanKm ==
    <<fetchVars, regVars, deriveVars, seedVars, uploadVars, readVars, kq, bg, flt, boot>>

\* the methods of the router: presentSeed, and one added with addHandler
Router == {"presentSeed", "readEntry"}
Methods == Router \cup {"unknown"}
MessageNonces == {0, 1}

HandlerOps == {"accept", "reject", "later"}
Handlers == [ops : SeqsUpTo(HandlerOps, MaxOps), throws : BOOLEAN]
CallbackOps == {"accept", "reject", "throw"}

\* a response postMessage sends: its nonce and whether it carries an error
ResponseMsg(nonce, isErr) == [nonce |-> nonce, method |-> "response", isErr |-> isErr]

NoMessage ==
    [state |-> "idle", nonce |-> 0, method |-> "unknown",
     handler |-> [ops |-> <<>>, throws |-> FALSE],
     responded |-> FALSE, posted |-> <<>>, later |-> 0, ran |-> FALSE]
KmIdle == km = NoMessage

\* accept(data) and reject(err) (messages.ts:27-55): nothing when a
\* response was sent, otherwise responded is set and the response posted
Respond(m, isErr) ==
    IF m.responded THEN m
    ELSE [m EXCEPT !.responded = TRUE,
                   !.posted = Append(@, ResponseMsg(m.nonce, isErr))]

\* the catch block (messages.ts:60-73): respondErr unless responded, and
\* responded is left as it is
Caught(m) ==
    IF m.responded THEN m
    ELSE [m EXCEPT !.posted = Append(@, ResponseMsg(m.nonce, TRUE))]

\* the calls the handler makes before it returns
RECURSIVE RunOps(_, _)
RunOps(m, ops) ==
    IF ops = <<>> THEN m
    ELSE IF Head(ops) = "accept" THEN RunOps(Respond(m, FALSE), Tail(ops))
    ELSE IF Head(ops) = "reject" THEN RunOps(Respond(m, TRUE), Tail(ops))
    ELSE RunOps([m EXCEPT !.later = @ + 1], Tail(ops))

\* handleMessage(event) (messages.ts:17-74)
handleMessage(nonce, method, handler) ==
    LET m == [NoMessage EXCEPT !.state = "handled", !.nonce = nonce,
                               !.method = method, !.handler = handler] IN
    IF method \notin Router
    THEN [m EXCEPT !.posted = <<ResponseMsg(nonce, TRUE)>>]
    ELSE LET after == RunOps([m EXCEPT !.ran = TRUE], handler.ops) IN
         IF handler.throws THEN Caught(after) ELSE after

HandleMessage(nonce, method, handler) ==
    /\ km.state = "idle"
    /\ km' = handleMessage(nonce, method, handler)
    /\ UNCHANGED otherThanKm

\* a callback the handler scheduled runs: it calls accept or reject, or
\* throws outside of handleMessage
HandlerCallback(op) ==
    /\ km.later > 0
    /\ km' = IF op = "accept" THEN [Respond(km, FALSE) EXCEPT !.later = @ - 1]
             ELSE IF op = "reject" THEN [Respond(km, TRUE) EXCEPT !.later = @ - 1]
             ELSE [km EXCEPT !.later = @ - 1]
    /\ UNCHANGED otherThanKm

(***************************************************************************)
(* Part 9: the queries of libkmodule (src/libs/libkmodule/src/queries.ts   *)
(* and src/unnamed/part_003).  The table `queries` is the set of its       *)
(* entries; an entry is the nonce and the query whose resolve it holds.    *)
(***************************************************************************)
\* queries a module opens and responses it receives
MaxQueries == 3
MaxResponses == 3

otherThanKq ==
    <<fetchVars, regVars, deriveVars, seedVars, uploadVars, readVars, km, bg, flt, boot>>

\* a nonce that is a key of Object.prototype ("constructor"): it is `in`
\* every object
InheritedKey == -1
ResponseNonces == 0..MaxQueries \cup {InheritedKey}

NoQueries ==
    [queriesNonce |-> 0, queries |-> {}, nonceOf |-> <<>>, posted |-> <<>>,
     resolved |-> <<>>, log |-> <<>>]
KqIdle == kq = NoQueries

HasKey(table, nonce) == \E e \in table : e.nonce = nonce
Lookup(table, nonce) == (CHOOSE e \in table : e.nonce = nonce).query
\* queries[nonce] = ...: an entry of that nonce is replaced
Store(table, nonce, query) ==
    {e \in table : e.nonce # nonce} \cup {[nonce |-> nonce, query |-> query]}
\* delete queries[nonce]
Delete(table, nonce) == {e \in table : e.nonce # nonce}

\* newKernelQuery without `queriesNonce += 1`
newKernelQuery_NoIncrement(q) ==
    LET nonce == q.queriesNonce
        query == Len(q.nonceOf) + 1
        queries == Store(q.queries, nonce, query)
    IN  [q EXCEPT !.queries = queries,
                  !.nonceOf = Append(@, nonce),
                  !.resolved = Append(@, <<>>),
                  !.posted = Append(@, [nonce |-> nonce, open |-> HasKey(queries, nonce)])]

\* newKernelQuery (queries.ts:85-109, part_003:146-178): the nonce is taken
\* and the counter incremented, the entry is stored, the message is posted
newKernelQuery(q) ==
    LET nonce == q.queriesNonce
        query == Len(q.nonceOf) + 1
        queries == Store(q.queries, nonce, query)
    IN  [q EXCEPT !.queriesNonce = @ + 1,
                  !.queries = queries,
                  !.nonceOf = Append(@, nonce),
                  !.resolved = Append(@, <<>>),
                  !.posted = Append(@, [nonce |-> nonce, open |-> HasKey(queries, nonce)])]

\* handleResponse (queries.ts:40-59, part_003:90-109); `before` is the table
\* the response met, `after` the table it left, `query` the query it
\* resolved (0 for none); for an
\* inherited key queries[nonce].resolve is no function and the call throws
handleResponse(q, nonce, isErr) ==
    IF nonce = InheritedKey
    THEN [q EXCEPT !.log = Append(@, [nonce |-> nonce, before |-> q.queries,
                                      after |-> q.queries,
                                      query |-> 0, threw |-> TRUE])]
    ELSE IF ~HasKey(q.queries, nonce)
    THEN [q EXCEPT !.log = Append(@, [nonce |-> nonce, before |-> q.queries,
                                      after |-> q.queries,
                                      query |-> 0, threw |-> FALSE])]
    ELSE LET query == Lookup(q.queries, nonce) IN
         [q EXCEPT !.resolved[query] = Append(@, [isErr |-> isErr, response |-> Len(q.log) + 1]),
                   !.queries = Delete(@, nonce),
                   !.log = Append(@, [nonce |-> nonce, before |-> q.queries,
                                      after |-> Delete(q.queries, nonce),
                                      query |-> query, threw |-> FALSE])]

NewKernelQuery ==
    /\ Len(kq.nonceOf) < MaxQueries
    /\ kq' = newKernelQuery(kq)
    /\ UNCHANGED otherThanKq

HandleResponse(nonce, isErr) ==
    /\ Len(kq.log) < MaxResponses
    /\ kq' = handleResponse(kq, nonce, isErr)
    /\ UNCHANGED otherThanKq

(***************************************************************************)
(* Part 10: the queries of the background page of the extension            *)
(* (src/extension/src/background.ts).  The kernel frame is the             *)
(* environment: the kernel of the current frame emits messages, which are  *)
(* handled in the order they were emitted; `frame` counts the reloads of   *)
(* the frame, and a message carries the frame whose kernel emitted it.     *)
(***************************************************************************)
\* queries the page and its bridges open, kernel messages in flight, and
\* authStatusChanged signals
MaxBgQueries == 2
MaxInFlight == 2
MaxReloads == 2

otherThanBg ==
    <<fetchVars, regVars, deriveVars, seedVars, uploadVars, readVars, km, kq, flt, boot>>

NoFrame == -1
KernelMethods == {"log", "authStatusChanged", "skynetKernelLoaded", "response", "responseUpdate"}
NoReload == [ran |-> FALSE, open |-> 0, cancelled |-> 0, empty |-> TRUE, scheduled |-> FALSE]

\* background.ts:38-40, 52-53, 144
BgStart ==
    [kernelLoadedResolved |-> FALSE, resolutions |-> 0, loadedBy |-> NoFrame,
     queriesNonce |-> 1, queries |-> {}, waiting |-> <<>>,
     reloading |-> FALSE, timers |-> 0, frame |-> 0, oldFrame |-> NoFrame,
     inflight |-> <<>>, opened |-> 0, reloads |-> 0,
     posts |-> <<>>, delivered |-> <<>>, lastReload |-> NoReload]
BgIdle == bg = BgStart

\* the callback of blockUntilKernelLoaded.then in queryKernel
\* (background.ts:85-91): the nonce was taken by the caller
thenQueryKernel(b, query, nonce) ==
    [b EXCEPT !.queries = Store(@, nonce, query),
              !.posts = Append(@, [query |-> query, nonce |-> nonce, frame |-> b.frame,
                                   loadedBy |-> b.loadedBy, oldFrame |-> b.oldFrame])]

\* the callback of blockUntilKernelLoaded.then in handleBridgeMessage
\* (background.ts:117-126): the nonce is taken now
thenBridge(b, query) ==
    [b EXCEPT !.queriesNonce = @ + 1,
              !.queries = Store(@, b.queriesNonce, query),
              !.posts = Append(@, [query |-> query, nonce |-> b.queriesNonce,
                                   frame |-> b.frame,
                                   loadedBy |-> b.loadedBy, oldFrame |-> b.oldFrame])]

\* the callbacks waiting for the promise, run in the order they were added
RECURSIVE RunWaiting(_, _)
RunWaiting(b, waiting) ==
    IF waiting = <<>> THEN b
    ELSE LET w == Head(waiting) IN
         RunWaiting(IF w.bridge THEN thenBridge(b, w.query)
                                ELSE thenQueryKernel(b, w.query, w.nonce),
                    Tail(waiting))

\* queryKernel (background.ts:54-93)
queryKernel(b) ==
    LET query == b.opened + 1
        nonce == b.queriesNonce
        taken == [b EXCEPT !.opened = query, !.queriesNonce = @ + 1]
    IN  IF b.kernelLoadedResolved
        THEN thenQueryKernel(taken, query, nonce)
        ELSE [taken EXCEPT !.waiting =
                 Append(@, [query |-> query, nonce |-> nonce, bridge |-> FALSE])]

\* handleBridgeMessage (background.ts:98-127)
handleBridgeMessage(b, hasNonce) ==
    IF ~hasNonce THEN b
    ELSE LET query == b.opened + 1
             called == [b EXCEPT !.opened = query]
         IN  IF b.kernelLoadedResolved
             THEN thenBridge(called, query)
             ELSE [called EXCEPT !.waiting =
                      Append(@, [query |-> query, nonce |-> 0, bridge |-> TRUE])]

\* reloadKernel (background.ts:145-187).  An entry of queries is the respond
\* function itself (background.ts:89, 122), so queries[key].respond is
\* undefined and the call at background.ts:155 throws a TypeError for the
\* first key: nothing after it runs.  The callbacks waiting for the
\* replaced promise are never run.
reloadKernel(b) ==
    LET reset == [b EXCEPT !.kernelLoadedResolved = FALSE, !.resolutions = 0,
                           !.loadedBy = NoFrame, !.queriesNonce = 1,
                           !.waiting = <<>>, !.oldFrame = b.frame,
                           !.reloads = @ + 1]
    IN  IF b.queries # {}
        THEN [reset EXCEPT !.lastReload =
                 [ran |-> TRUE, open |-> Cardinality(b.queries), cancelled |-> 0,
                  empty |-> FALSE, scheduled |-> FALSE]]
        ELSE [reset EXCEPT !.reloading = TRUE, !.timers = @ + 1,
                           !.lastReload =
                 [ran |-> TRUE, open |-> 0, cancelled |-> 0,
                  empty |-> TRUE, scheduled |-> TRUE]]

\* handleKernelResponse (background.ts:191-268) for a message of the kernel
handleKernelResponse(b, msg) ==
    IF msg.method = "log" THEN b
    ELSE IF msg.method = "authStatusChanged" THEN reloadKernel(b)
    ELSE IF msg.method = "skynetKernelLoaded" /\ ~b.reloading
    THEN IF ~b.kernelLoadedResolved
         THEN RunWaiting([b EXCEPT !.kernelLoadedResolved = TRUE,
                                   !.resolutions = @ + 1,
                                   !.loadedBy = msg.frame,
                                   !.waiting = <<>>],
                         b.waiting)
         ELSE b
    ELSE IF msg.method \notin {"response", "responseUpdate"} THEN b
    ELSE IF ~HasKey(b.queries, msg.nonce) THEN b
    ELSE LET receiver == Lookup(b.queries, msg.nonce) IN
         [b EXCEPT !.queries = IF msg.method = "response" THEN Delete(@, msg.nonce) ELSE @,
                   !.delivered = Append(@, [query |-> receiver, for |-> msg.for])]

\* what the kernel can answer to a requestOverride query
\* (background.ts:935-981); the answer of any other message is "none"
KernelAnswers ==
    {"no override field", "err", "override false", "no body", "no headers", "override"}

\* what the kernel of the current frame can emit: a response answers a
\* query that was posted to this frame
KernelMessages(b, requestOverride) ==
    [method : {"log", "skynetKernelLoaded"}, frame : {b.frame}, nonce : {0}, for : {0},
     answer : {"none"}]
    \cup (IF b.reloads < MaxReloads
          THEN [method : {"authStatusChanged"}, frame : {b.frame}, nonce : {0}, for : {0},
                answer : {"none"}]
          ELSE {})
    \cup UNION {[method : {"response"}, frame : {b.frame}, nonce : {b.posts[i].nonce},
                 for : {b.posts[i].query},
                 answer : IF b.posts[i].query = requestOverride
                          THEN KernelAnswers ELSE {"none"}]
                \cup [method : {"responseUpdate"}, frame : {b.frame},
                      nonce : {b.posts[i].nonce}, for : {b.posts[i].query},
                      answer : {"none"}] :
                i \in {j \in 1..Len(b.posts) : b.posts[j].frame = b.frame}}

QueryKernel ==
    /\ bg.opened < MaxBgQueries
    /\ bg' = queryKernel(bg)
    /\ UNCHANGED otherThanBg

HandleBridgeMessage(hasNonce) ==
    /\ bg.opened < MaxBgQueries
    /\ bg' = handleBridgeMessage(bg, hasNonce)
    /\ UNCHANGED otherThanBg

KernelPostMessage(method) ==
    /\ Len(bg.inflight) < MaxInFlight
    /\ Len(bg.delivered) < MaxBgQueries
    /\ \E msg \in KernelMessages(bg, flt.query) :
          /\ msg.method = method
          /\ bg' = [bg EXCEPT !.inflight = Append(@, msg)]
    /\ UNCHANGED otherThanBg

\* the callback of setTimeout in reloadKernel (background.ts:182-186)
ReloadTimeout ==
    /\ bg.timers > 0
    /\ bg' = [bg EXCEPT !.timers = @ - 1, !.reloading = FALSE, !.frame = @ + 1]
    /\ UNCHANGED otherThanBg

(***************************************************************************)
(* Part 11: the response filter of onBeforeRequestListener                 *)
(* (src/extension/src/background.ts:844-1011).  The server is the          *)
(* environment: it sends some chunks of data and then stops.               *)
(***************************************************************************)
\* chunks of data the server sends for one request
MaxChunks == 2

otherThanFlt ==
    <<fetchVars, regVars, deriveVars, seedVars, uploadVars, readVars, km, kq, bg, boot>>

ChunkData == {"a", "b"}
KernelBody == "body"
NoRequest ==
    [state |-> "idle", query |-> 0, answer |-> "pending", blockFilter |-> "pending",
     waiting |-> <<>>, served |-> <<>>, written |-> <<>>,
     closeFilter |-> FALSE, stopped |-> FALSE, closed |-> FALSE]
FltIdle == flt = NoRequest

\* the callback of blockFilter.then in filter.ondata (background.ts:999-1006)
OnDataThen(f, response, data) ==
    [f EXCEPT !.written = Append(@, IF response = "null" THEN data ELSE response),
              !.closeFilter = TRUE]

\* the callbacks waiting for blockFilter, run in the order they were added
RECURSIVE RunFilterWaiting(_, _, _)
RunFilterWaiting(f, response, waiting) ==
    IF waiting = <<>> THEN f
    ELSE RunFilterWaiting(OnDataThen(f, response, Head(waiting)), response, Tail(waiting))

\* the callback of blockClose.then in filter.onstop (background.ts:1008-1010),
\* which runs once closeFilter was called and onstop has fired
OnStopThen(f) ==
    IF f.closeFilter /\ f.stopped THEN [f EXCEPT !.closed = TRUE] ELSE f

\* the requests of onBeforeRequestListener: for the kernel frame itself
\* and for any other page
RequestKinds == {"kernel frame", "page"}

otherThanBgFlt ==
    <<fetchVars, regVars, deriveVars, seedVars, uploadVars, readVars, km, kq, boot>>

\* onBeforeRequestListener (background.ts:843-1011): with the kernel
\* loaded it calls queryKernel for the requestOverride query
OnBeforeRequest(kind) ==
    /\ flt.state = "idle"
    /\ IF kind = "kernel frame"
       THEN flt' = [flt EXCEPT !.state = "swallow"] /\ bg' = bg
       ELSE IF ~bg.kernelLoadedResolved
       THEN flt' = [flt EXCEPT !.state = "passthrough"] /\ bg' = bg
       ELSE /\ flt' = [flt EXCEPT !.state = "query", !.query = bg.opened + 1]
            /\ bg' = queryKernel(bg)
    /\ UNCHANGED otherThanBgFlt

\* filter.onstart of a request for the kernel frame (background.ts:879-883)
FilterOnStart ==
    /\ flt.state = "swallow"
    /\ ~flt.closed
    /\ flt' = [flt EXCEPT !.closed = TRUE]
    /\ UNCHANGED otherThanFlt

\* how the promise of queryKernel settles for a message handed to its
\* respond function (background.ts:58-83): anything but a response without
\* error rejects it
QueryAnswer(msg) ==
    IF msg.method # "response" \/ msg.answer = "err" THEN "query failed"
    ELSE IF msg.answer = "none" THEN "no override field"
    ELSE msg.answer

\* the then and the catch of the requestOverride query
\* (background.ts:935-986): every answer but an override resolves
\* blockFilter with null; the promise settles once
requestOverrideSettled(f, answer) ==
    IF f.blockFilter # "pending" THEN f
    ELSE LET response == IF answer = "override" THEN KernelBody ELSE "null" IN
         OnStopThen(RunFilterWaiting(
             [f EXCEPT !.answer = answer, !.blockFilter = response, !.waiting = <<>>],
             response, f.waiting))

\* a message of the kernel is handled; a message handed to the respond
\* function of the requestOverride query settles that query in the same
\* task
HandleKernelResponse ==
    /\ bg.inflight # <<>>
    /\ bg' = handleKernelResponse([bg EXCEPT !.inflight = Tail(@)], Head(bg.inflight))
    /\ flt' = IF /\ Len(bg'.delivered) > Len(bg.delivered)
                 /\ flt.query # 0
                 /\ bg'.delivered[Len(bg'.delivered)].query = flt.query
              THEN requestOverrideSettled(flt, QueryAnswer(Head(bg.inflight)))
              ELSE flt
    /\ UNCHANGED otherThanBgFlt

\* filter.ondata (background.ts:903-905, 998-1007)
FilterOnData(data) ==
    /\ flt.state \in {"passthrough", "query"}
    /\ ~flt.stopped
    /\ Len(flt.served) < MaxChunks
    /\ LET f == [flt EXCEPT !.served = Append(@, data)] IN
       flt' = IF flt.state = "passthrough"
              THEN [f EXCEPT !.written = Append(@, data)]
              ELSE IF flt.blockFilter = "pending"
              THEN [f EXCEPT !.waiting = Append(@, data)]
              ELSE OnDataThen(f, flt.blockFilter, data)
    /\ UNCHANGED otherThanFlt

\* filter.onstop (background.ts:906-908, 1008-1010)
FilterOnStop ==
    /\ flt.state \in {"passthrough", "query"}
    /\ ~flt.stopped
    /\ flt' = IF flt.state = "passthrough"
              THEN [flt EXCEPT !.stopped = TRUE, !.closed = TRUE]
              ELSE OnStopThen([flt EXCEPT !.stopped = TRUE])
    /\ UNCHANGED otherThanFlt

(***************************************************************************)
(* Part 12: the bootloader of the kernel                                   *)
(* (src/extension-std/src/bootloader.ts).  initUserPortalPreferences,      *)
(* deriveResolverLink, writeNewOwnRegistryEntry, downloadSkylink and       *)
(* downloadDefaultKernel are not defined in the file (bootloader.ts:47-49);*)
(* they are the environment, a promise that is resolved or rejected.       *)
(* `parent` is what was posted to the parent window, `responses[n]` the    *)
(* number of responses to the n-th message.  `loaded` says that the script *)
(* has run and its listeners are registered, `started` that                *)
(* bootloaderLoadKernel or the refusal of the storage access has run.      *)
(***************************************************************************)
\* messages the bootloader receives and storage events
MaxMessages == 1
MaxStorageEvents == 2

otherThanBoot ==
    <<fetchVars, regVars, deriveVars, seedVars, uploadVars, readVars, km, kq, bg, flt>>

NoFailure == [failed |-> FALSE, stage |-> "none", kernelLoading |-> FALSE, sent |-> "none"]
BootMethods == {"none", "requestOverride", "proxyInfo", "other"}
OverrideInputs == {"no url", "no method", "auth page", "other page"}
BootMessages == [hasNonce : BOOLEAN, method : BootMethods, input : OverrideInputs]
StorageKeys == {"v1-seed", "null", "other"}

\* bootloader.ts:185, 314, 492
NotBooted ==
    [loaded |-> FALSE, started |-> FALSE, seed |-> FALSE, registryWrites |-> 0,
     kernelLoading |-> FALSE, kernelHasLoaded |-> FALSE,
     authChangeMessageSent |-> FALSE, stage |-> "none", active |-> 0,
     parent |-> <<>>, inbox |-> <<>>, responses |-> <<>>, authPage |-> {},
     storageEvents |-> 0, lastFailure |-> NoFailure]
BootIdle == boot = NotBooted

PostParent(b, method) == [b EXCEPT !.parent = Append(@, method)]
\* event.source.postMessage({nonce, method: "response", ...})
RespondTo(b, n) == [b EXCEPT !.responses[n] = @ + 1]

\* kernelDiscoveryFailed (bootloader.ts:260-279) for an err that is
\* "error" (a value with properties: an Error, a string) or "nullish"
\* (undefined or null): err.message is read
\* after kernelLoading was reset and the error logged; for undefined or
\* null the read throws a TypeError and nothing after it runs
kernelDiscoveryFailed(b, err) ==
    LET logged == PostParent([b EXCEPT !.kernelLoading = FALSE], "log") IN
    IF err = "nullish" THEN logged
    ELSE [PostParent(logged, "kernelAuthStatus err") EXCEPT !.kernelHasLoaded = TRUE]

\* evalKernel (bootloader.ts:282-307)
evalKernel(b, throws) ==
    IF throws THEN PostParent(b, "log isErr")
    ELSE IF ~b.authChangeMessageSent
    THEN [PostParent(b, "kernelAuthStatus") EXCEPT !.kernelHasLoaded = TRUE]
    ELSE b

\* loadSkynetKernel (bootloader.ts:315-339) up to the call of
\* initUserPortalPreferences
loadSkynetKernel(b) ==
    IF b.kernelLoading THEN b
    ELSE [b EXCEPT !.kernelLoading = TRUE, !.stage = "preferences", !.active = @ + 1]

\* handleSkynetKernelRequestOverride (bootloader.ts:343-413) for the n-th
\* message
handleSkynetKernelRequestOverride(b, n, input) ==
    IF input \in {"no url", "no method"} THEN RespondTo(b, n)
    ELSE IF input = "auth page" THEN [b EXCEPT !.authPage = @ \cup {n}]
    ELSE RespondTo(b, n)

\* handleMessage (bootloader.ts:436-483)
bootHandleMessage(b, msg) ==
    LET n == Len(b.inbox) + 1
        got == [b EXCEPT !.inbox = Append(@, msg), !.responses = Append(@, 0)]
    IN  IF ~msg.hasNonce THEN got
        ELSE IF msg.method = "none" THEN RespondTo(got, n)
        ELSE IF msg.method = "requestOverride"
        THEN handleSkynetKernelRequestOverride(got, n, msg.input)
        ELSE IF msg.method = "proxyInfo" THEN RespondTo(got, n)
        ELSE IF b.kernelHasLoaded THEN RespondTo(got, n)
        ELSE PostParent(got, "log")

\* bootloaderLoadKernel (bootloader.ts:567-580); bootloaderAuthFailed
\* (bootloader.ts:540-551) when there is no seed
bootloaderLoadKernel(b, seed) ==
    IF seed
    THEN loadSkynetKernel(PostParent([b EXCEPT !.started = TRUE, !.seed = TRUE], "log"))
    ELSE PostParent(PostParent([b EXCEPT !.started = TRUE], "log"),
                    "kernelAuthStatus unauthorized")

\* the .catch of loadSkynetKernel (bootloader.ts:335-338) after `logs`
\* messages were logged by the step that rejected with err
LoadRejected(b, stage, logs, err) ==
    LET ended == [b EXCEPT !.stage = "none", !.active = @ - 1]
        logged == IF logs = 1 THEN PostParent(ended, "log") ELSE ended
        after == kernelDiscoveryFailed(PostParent(logged, "log"), err)
    IN  [after EXCEPT !.lastFailure =
            [failed |-> TRUE, stage |-> stage, kernelLoading |-> after.kernelLoading,
             sent |-> after.parent[Len(after.parent)]]]

\* the .then of loadSkynetKernel with the code of a kernel
\* (bootloader.ts:331-334)
LoadEvaluated(b, throws) ==
    LET ended == [b EXCEPT !.stage = "none", !.active = @ - 1]
        after == PostParent(evalKernel(ended, throws), "log")
    IN  IF throws
        THEN [after EXCEPT !.lastFailure =
                 [failed |-> TRUE, stage |-> "eval",
                  kernelLoading |-> after.kernelLoading, sent |-> "log isErr"]]
        ELSE after

\* the script is loaded into the frame (bootloader.ts:484-486, 532,
\* 586-600): the listeners are registered, and bootloaderLoadKernel runs
\* unless the script waits for document.requestStorageAccess()
BootScript(waits, seed) ==
    /\ ~boot.loaded
    /\ boot' = IF waits THEN [boot EXCEPT !.loaded = TRUE]
               ELSE bootloaderLoadKernel([boot EXCEPT !.loaded = TRUE], seed)
    /\ UNCHANGED otherThanBoot

\* the promise of document.requestStorageAccess() settles
\* (bootloader.ts:588-596); a seed that a storage event announced is in
\* localStorage
StorageAccessSettled(granted, seed) ==
    /\ boot.loaded
    /\ ~boot.started
    /\ boot.seed => seed
    /\ boot' = IF granted THEN bootloaderLoadKernel(boot, seed)
               ELSE PostParent(PostParent([boot EXCEPT !.started = TRUE], "log"),
                               "kernelAuthStatus unauthorized")
    /\ UNCHANGED otherThanBoot

\* how the promise of initUserPortalPreferences settles (it rejects with
\* a value that has properties, or with undefined or null), and whether
\* deriveResolverLink in downloadUserKernel gives an error
PreferencesOutcomes == {"rejected", "rejected nullish", "no resolver link", "resolved"}

\* the promise of initUserPortalPreferences settles; downloadUserKernel
\* starts the download (bootloader.ts:158-181, 327-338)
PreferencesSettled(outcome) ==
    /\ boot.stage = "preferences"
    /\ boot' = IF outcome = "resolved" THEN [boot EXCEPT !.stage = "download"]
               ELSE IF outcome = "rejected"
               THEN LoadRejected(boot, "preferences", 0, "error")
               ELSE IF outcome = "rejected nullish"
               THEN LoadRejected(boot, "preferences", 0, "nullish")
               ELSE LoadRejected(boot, "download", 0, "error")
    /\ UNCHANGED otherThanBoot

\* how the download of the user's kernel ends: the promise of
\* downloadSkylink rejects, or resolves with a response
DownloadOutcomes ==
    {"rejected", "200 invalid", "200 eval throws", "200 evaluated", "404", "500"}

\* the promise of downloadSkylink settles: processUserKernelDownload
\* (bootloader.ts:168-179, 192-249) and, for a kernel that was downloaded,
\* evalKernel (bootloader.ts:331-334)
KernelDownloaded(outcome) ==
    /\ boot.stage = "download"
    /\ boot' = IF outcome \in {"rejected", "200 invalid"}
               THEN LoadRejected(boot, "download", 0, "error")
               ELSE IF outcome = "500" THEN LoadRejected(boot, "download", 1, "error")
               ELSE IF outcome = "404"
               THEN PostParent([boot EXCEPT !.stage = "default",
                                            !.registryWrites = @ + 1], "log")
               ELSE LoadEvaluated(boot, outcome = "200 eval throws")
    /\ UNCHANGED otherThanBoot

\* the promise of downloadDefaultKernel settles (bootloader.ts:234-240)
DefaultKernelDownloaded(outcome) ==
    /\ boot.stage = "default"
    /\ boot' = IF outcome = "rejected" THEN LoadRejected(boot, "default", 0, "error")
               ELSE LoadEvaluated(boot, outcome = "eval throws")
    /\ UNCHANGED otherThanBoot

\* the promise of writeNewOwnRegistryEntry settles (bootloader.ts:225-231):
\* a log either way
RegistryEntryWritten ==
    /\ boot.registryWrites > 0
    /\ boot' = PostParent([boot EXCEPT !.registryWrites = @ - 1], "log")
    /\ UNCHANGED otherThanBoot

\* handleStorage (bootloader.ts:493-531); window.location.reload() starts
\* the bootloader again, in a frame without seed
HandleStorage(key) ==
    /\ boot.loaded
    /\ boot.storageEvents < MaxStorageEvents
    /\ LET b == [boot EXCEPT !.storageEvents = @ + 1] IN
       boot' = IF key = "v1-seed"
               THEN LET sent == PostParent([b EXCEPT !.authChangeMessageSent = TRUE,
                                                     !.seed = TRUE],
                                           "kernelAuthStatusChanged")
                    IN  IF ~sent.kernelHasLoaded
                        THEN [loadSkynetKernel(sent) EXCEPT !.kernelHasLoaded = TRUE]
                        ELSE sent
               ELSE IF key = "null"
               THEN [NotBooted EXCEPT !.parent = Append(b.parent, "kernelAuthStatusChanged"),
                                      !.inbox = b.inbox, !.responses = b.responses,
                                      !.storageEvents = b.storageEvents,
                                      !.lastFailure = b.lastFailure]
               ELSE b
    /\ UNCHANGED otherThanBoot

BootHandleMessage(msg) ==
    /\ boot.loaded
    /\ Len(boot.inbox) < MaxMessages
    /\ msg.method = "requestOverride" \/ msg.input = "other page"
    /\ boot' = bootHandleMessage(boot, msg)
    /\ UNCHANGED otherThanBoot

\* the promise of downloadSkylink for the auth page settles
\* (bootloader.ts:402-410): respondBody or respondErr
AuthPageDownloaded(n) ==
    /\ n \in boot.authPage
    /\ boot' = RespondTo([boot EXCEPT !.authPage = @ \ {n}], n)
    /\ UNCHANGED otherThanBoot

PageIdle == KmIdle /\ KqIdle /\ BgIdle /\ FltIdle /\ BootIdle
AppIdle == UploadIdle /\ ReadIdle /\ PageIdle

FetchIdle ==
    /\ portals = <<>>
    /\ pfm = [c \in Calls |-> EmptyMidstate]
    /\ pc = [c \in Calls |-> "idle"]
    /\ inflight = [c \in Calls |-> {}]
    /\ result = [c \in Calls |-> NoResult]
    /\ resolveCount = [c \in Calls |-> 0]
    /\ supplied = [c \in Calls |-> <<>>]
    /\ requests = [c \in Calls |-> <<>>]

vars == <<fetchVars, regVars, deriveVars, seedVars, appVars>>

Init == FetchInit /\ RegIdle /\ DeriveIdle /\ SeedIdle /\ AppIdle
Next ==
    \/ \E c \in Calls : progressiveFetch(c)
    \/ \E c \in Calls : \E p \in Portals : \E r \in FulfilledResponses : FetchThen(c, p, r)
    \/ \E c \in Calls : \E p \in Portals : FetchCatch(c, p)
Spec == Init /\ [][Next]_vars

Settle(c) ==
    \E p \in Portals :
        (\E r \in FulfilledResponses : FetchThen(c, p, r)) \/ FetchCatch(c, p)

\* every issued request eventually settles
LiveSpec == Spec /\ \A c \in Calls : WF_vars(Settle(c))

RegistryInit == RegInit /\ FetchIdle /\ DeriveIdle /\ SeedIdle /\ AppIdle
RegistryNext ==
    \/ ComputeSignature
    \/ \E pk \in Keys : \E dk \in DataKeys : \E d \in Datas : \E r \in Revisions :
          VerifySignature(pk, dk, d, r)
RegistrySpec == RegistryInit /\ [][RegistryNext]_vars

DeriveInit == DeriveIdle /\ FetchIdle /\ RegIdle /\ SeedIdle /\ AppIdle
DeriveNext ==
    \/ \E seed \in Seeds : \E kt \in KeypairTags : \E dt \in DatakeyTags :
          TaggedRegistryEntryKeys(seed, kt, dt)
    \/ \E seed \in Seeds : \E kt \in KeypairTags : \E dt \in DatakeyTags :
          LibkerneldevTaggedRegistryEntryKeys(seed, kt, dt)
    \/ \E pk \in PubKeys : \E dk \in DataKeys : DeriveRegistryEntryID(pk, dk)
    \/ \E id \in EntryIDs : EntryIDToSkylink(id)
    \/ \E id \in EntryIDs : ResolverLink(id)
DeriveSpec == DeriveInit /\ [][DeriveNext]_vars

UploadInit == FetchInit /\ RegIdle /\ DeriveIdle /\ SeedIdle /\ AppIdle
UploadNext ==
    \/ \E c \in Calls : \E n \in FileDataLengths : \E m \in Metadatas : Upload(c, n, m)
    \/ \E c \in Calls : \E p \in Portals : \E r \in FulfilledResponses : FetchThen(c, p, r)
    \/ \E c \in Calls : \E p \in Portals : FetchCatch(c, p)
    \/ \E c \in Calls : UploadFetched(c)
    \/ \E c \in Calls : \E body \in UploadBodies : UploadJson(c, body)
UploadSpec == UploadInit /\ [][UploadNext]_vars

\* every issued request settles and every handler of upload runs
UploadLiveSpec ==
    /\ UploadSpec
    /\ \A c \in Calls : WF_vars(Settle(c))
    /\ \A c \in Calls : WF_vars(UploadFetched(c))
    /\ \A c \in Calls :
          WF_vars(\E body \in UploadBodies : UploadJson(c, body))

ReadEntryInit ==
    FetchIdle /\ RegIdle /\ DeriveIdle /\ SeedIdle /\ UploadIdle /\ PageIdle /\ ReadInit
ReadEntryNext ==
    \/ \E data \in CallerInputs : HandleReadEntry(data)
    \/ \E resp \in AllRegResponses : ReadFetchThen(resp)
    \/ ReadFetchCatch
    \/ ReadFetched
    \/ \E readable \in BOOLEAN : ReadJson(readable)
ReadEntrySpec == ReadEntryInit /\ [][ReadEntryNext]_vars

MessageInit ==
    /\ FetchIdle /\ RegIdle /\ DeriveIdle /\ SeedIdle /\ UploadIdle /\ ReadIdle
    /\ PageIdle
MessageNext ==
    \/ \E nonce \in MessageNonces : \E method \in Methods : \E handler \in Handlers :
          HandleMessage(nonce, method, handler)
    \/ \E op \in CallbackOps : HandlerCallback(op)
MessageSpec == MessageInit /\ [][MessageNext]_vars

QueryInit ==
    /\ FetchIdle /\ RegIdle /\ DeriveIdle /\ SeedIdle /\ UploadIdle /\ ReadIdle
    /\ PageIdle
QueryNext ==
    \/ NewKernelQuery
    \/ \E nonce \in ResponseNonces : \E isErr \in BOOLEAN : HandleResponse(nonce, isErr)
QuerySpec == QueryInit /\ [][QueryNext]_vars

BackgroundInit ==
    /\ FetchIdle /\ RegIdle /\ DeriveIdle /\ SeedIdle /\ UploadIdle /\ ReadIdle
    /\ PageIdle
BackgroundNext ==
    \/ QueryKernel
    \/ \E hasNonce \in BOOLEAN : HandleBridgeMessage(hasNonce)
    \/ \E method \in KernelMethods : KernelPostMessage(method)
    \/ HandleKernelResponse
    \/ ReloadTimeout
BackgroundSpec == BackgroundInit /\ [][BackgroundNext]_vars

FilterInit ==
    /\ FetchIdle /\ RegIdle /\ DeriveIdle /\ SeedIdle /\ UploadIdle /\ ReadIdle
    /\ PageIdle
FilterNext ==
    \/ \E kind \in RequestKinds : OnBeforeRequest(kind)
    \/ FilterOnStart
    \/ \E data \in ChunkData : FilterOnData(data)
    \/ FilterOnStop
    \/ \E method \in KernelMethods : KernelPostMessage(method)
    \/ HandleKernelResponse
    \/ ReloadTimeout
FilterSpec == FilterInit /\ [][FilterNext]_vars
\* the messages of the kernel are handled and the server ends its
\* response; how many chunks it sends is up to the server
FilterLiveSpec ==
    /\ FilterSpec
    /\ WF_vars(HandleKernelResponse)
    /\ WF_vars(FilterOnStop)

BootInit ==
    /\ FetchIdle /\ RegIdle /\ DeriveIdle /\ SeedIdle /\ UploadIdle /\ ReadIdle
    /\ PageIdle
BootNext ==
    \/ \E waits \in BOOLEAN : \E seed \in BOOLEAN : BootScript(waits, seed)
    \/ \E granted \in BOOLEAN : \E seed \in BOOLEAN : StorageAccessSettled(granted, seed)
    \/ \E outcome \in PreferencesOutcomes : PreferencesSettled(outcome)
    \/ \E outcome \in DownloadOutcomes : KernelDownloaded(outcome)
    \/ \E outcome \in {"rejected", "eval throws", "evaluated"} :
          DefaultKernelDownloaded(outcome)
    \/ RegistryEntryWritten
    \/ \E key \in StorageKeys : HandleStorage(key)
    \/ \E msg \in BootMessages : BootHandleMessage(msg)
    \/ \E n \in 1..MaxMessages : AuthPageDownloaded(n)
BootSpec == BootInit /\ [][BootNext]_vars
\* every promise settles, and the script is loaded into its frame
BootLiveSpec ==
    /\ BootSpec
    /\ WF_vars(\E waits \in BOOLEAN : \E seed \in BOOLEAN : BootScript(waits, seed))
    /\ WF_vars(\E granted \in BOOLEAN : \E seed \in BOOLEAN :
                  StorageAccessSettled(granted, seed))
    /\ WF_vars(\E outcome \in PreferencesOutcomes : PreferencesSettled(outcome))
    /\ WF_vars(\E outcome \in DownloadOutcomes : KernelDownloaded(outcome))
    /\ WF_vars(\E outcome \in {"rejected", "eval throws", "evaluated"} :
                  DefaultKernelDownloaded(outcome))
    /\ WF_vars(RegistryEntryWritten)
    /\ WF_vars(\E n \in 1..MaxMessages : AuthPageDownloaded(n))

CodecInit == DeriveIdle /\ FetchIdle /\ RegIdle /\ SeedIdle /\ AppIdle
CodecNext ==
    \/ \E trial \in Sizes : SkylinkV1Bitfield(trial)
    \/ \E path \in Paths : ValidateSkyfilePath(path)
    \/ \E seed \in ChecksumSeeds : \E h \in HashValues : SeedToChecksumWords(seed, h)
CodecSpec == CodecInit /\ [][CodecNext]_vars

SeedInit == SeedIdle /\ FetchIdle /\ RegIdle /\ DeriveIdle /\ AppIdle
SeedNext ==
    \/ \E pw \in Passwords : \E random \in RandomBufs : GenerateSeedPhrase(pw, random)
    \/ \E s \in PasswordStrs : GenerateSeedPhraseDeterministic(s)
    \/ \E seed \in SeedInputs : WritePhraseOfSeed(seed)
    \/ ValidSeedPhrase
    \/ \E edit \in Edits : SeedPhraseToSeed(edit)
SeedSpec == SeedInit /\ [][SeedNext]_vars

(***************************************************************************)
(* Views of a delivered result.                                            *)
(***************************************************************************)
Resolved(c) == pc[c] = "resolved"
Succeeded(c) == Resolved(c) /\ result[c].success
Exhausted(c) == Resolved(c) /\ ~result[c].success

\* result.remainingPortals is the caller's array itself, or null
RemainingIsList(c) == result[c].remainingPortals = "portals"
RemainingPortals(c) == IF RemainingIsList(c) THEN portals ELSE <<>>

\* the responses of the trail that carry a status outside 200..299
Non2xx(rs) == SelectSeq(rs, LAMBDA r : HasNumericStatus(r) /\ ~Is2xx(r.status))

\* a is a prefix of b
IsPrefix(a, b) == Len(a) <= Len(b) /\ a = SubSeq(b, 1, Len(a))

\* a can be obtained from b by deleting elements (order kept)
RECURSIVE IsSubsequence(_, _)
IsSubsequence(a, b) ==
    IF a = <<>> THEN TRUE
    ELSE IF b = <<>> THEN FALSE
    ELSE IF Head(a) = Head(b) THEN IsSubsequence(Tail(a), Tail(b))
    ELSE IsSubsequence(a, Tail(b))

(***************************************************************************)
(* Claims about progressiveFetch.                                          *)
(***************************************************************************)

\* C1: a call resolves with success=true only for a response with a status
\* in 200..299 on which the caller's verify function reported no error.
C1_SuccessOnlyIfVerified ==
    \A c \in Calls :
        Succeeded(c) =>
            /\ HasNumericStatus(result[c].response)
            /\ Is2xx(result[c].response.status)
            /\ result[c].response.verified

\* C2: on success on the k-th host, failedHosts ++ [host] ++ remainingHosts
\* is the supplied list (failedHosts the k-1 hosts before, remainingHosts the
\* hosts after).
C2_ResultSplitsSuppliedList ==
    \A c \in Calls :
        Succeeded(c) =>
            /\ RemainingIsList(c)
            /\ result[c].portalsFailed \o <<result[c].portal>> \o RemainingPortals(c)
                   = supplied[c]

\* C3: when no host gives an accepted answer the call resolves with
\* success=false, every supplied host in failedHosts in supplied order, and
\* an empty remainingHosts list; a response that fails verification counts
\* as a failure.
C3_ExhaustedListsEveryHost ==
    \A c \in Calls :
        /\ Succeeded(c) => result[c].response.verified
        /\ Exhausted(c) =>
              /\ result[c].portalsFailed = supplied[c]
              /\ RemainingIsList(c)
              /\ RemainingPortals(c) = <<>>

\* the portals of a call that were requested and whose outcome is in the trail
Attempted(c) ==
    IF Succeeded(c)
    THEN Append(result[c].portalsFailed, result[c].portal)
    ELSE pfm[c].portalsFailed

RECURSIVE SetToSeq(_)
SetToSeq(S) ==
    IF S = {} THEN <<>>
    ELSE LET x == CHOOSE y \in S : TRUE IN <<x>> \o SetToSeq(S \ {x})

\* C4: within one call the hosts are requested in the supplied order (never
\* reordered; one after the other from the first when no other call uses the
\* list), at most one request is in flight, and the next request is issued
\* only after the previous failure is in the trail: the requests issued so
\* far are the trail (in attempt order) followed by the one request in
\* flight, and the log lines name the same portals in the same order.
C4_SequentialInOrder ==
    \A c \in Calls :
        /\ Cardinality(inflight[c]) <= 1
        /\ IsSubsequence(requests[c], supplied[c])
        /\ (\A d \in Calls \ {c} : pc[d] = "idle") => IsPrefix(requests[c], supplied[c])
        /\ requests[c] = Attempted(c) \o SetToSeq(inflight[c])
        /\ IsPrefix(pfm[c].portalsFailed, requests[c])
        /\ SelectSeq([i \in 1..Len(pfm[c].logs) |-> pfm[c].logs[i][2]],
                     LAMBDA p : p # NullPortal) = pfm[c].portalsFailed

\* C4 witness: two calls have a request in flight at the same time and one
\* of them is past its first host.
C4_Witness ==
    \E c, d \in Calls :
        /\ c # d
        /\ inflight[c] # {} /\ inflight[d] # {}
        /\ Len(requests[c]) >= 2

\* C5: the caller's list is read-only: it still holds what was supplied,
\* during and after every call.
C5_CallerListUnchanged ==
    \A c \in Calls : pc[c] # "idle" => portals = supplied[c]

\* a request of call c settled as a failure in this step
FailureSettled(c) ==
    /\ inflight[c] # {}
    /\ inflight'[c] # inflight[c]
    /\ ~(result'[c].success /\ resolveCount'[c] > resolveCount[c])

\* C6: a transport failure, malformed response or non-2xx status appends
\* exactly one failed host, exactly one failed response (the two lists stay
\* equally long) and at least one log line, and while portals remain the
\* call is not ended: the next portal is requested.
C6_FailureRecordedAndNextTried ==
    [][\A c \in Calls :
          FailureSettled(c) =>
             /\ Len(pfm'[c].portalsFailed) = Len(pfm[c].portalsFailed) + 1
             /\ Len(pfm'[c].responsesFailed) = Len(pfm[c].responsesFailed) + 1
             /\ Len(pfm'[c].portalsFailed) = Len(pfm'[c].responsesFailed)
             /\ Len(pfm'[c].logs) >= Len(pfm[c].logs) + 1
             /\ pfm'[c].portalsFailed[Len(pfm'[c].portalsFailed)] \in inflight[c]
             /\ ~HasNumericStatus(pfm'[c].responsesFailed[Len(pfm'[c].responsesFailed)])
                  \/ ~Is2xx(pfm'[c].responsesFailed[Len(pfm'[c].responsesFailed)].status)
             /\ (portals # <<>> =>
                    /\ pc'[c] = "running"
                    /\ resolveCount'[c] = resolveCount[c]
                    /\ inflight'[c] = {Head(portals)})
             /\ (portals = <<>> =>
                    /\ pc'[c] = "resolved"
                    /\ ~result'[c].success
                    /\ result'[c].portalsFailed = pfm'[c].portalsFailed
                    /\ result'[c].responsesFailed = pfm'[c].responsesFailed)
      ]_vars

Range(f) == {f[i] : i \in DOMAIN f}

\* C6 witness: a call has survived a transport failure and an error status
\* and is requesting a further portal.
C6_Witness ==
    \E c \in Calls :
        /\ pc[c] = "running"
        /\ inflight[c] # {}
        /\ FetchError \in Range(pfm[c].responsesFailed)
        /\ \E r \in Range(pfm[c].responsesFailed) : HasNumericStatus(r)

\* C7: every call eventually resolves, exactly once, as Success or
\* Exhausted, after at most one request per supplied host; with an empty
\* list it resolves as Exhausted without any request.
C7_ResolvesExactlyOnce ==
    /\ \A c \in Calls : (pc[c] # "idle") ~> Resolved(c)
    /\ [](\A c \in Calls :
             /\ resolveCount[c] <= 1
             /\ Resolved(c) <=> resolveCount[c] = 1
             /\ Resolved(c) => inflight[c] = {}
             /\ Len(requests[c]) <= Len(supplied[c])
             /\ (pc[c] # "idle" /\ supplied[c] = <<>>) =>
                    Exhausted(c) /\ requests[c] = <<>>)
    /\ [][\A c \in Calls : Resolved(c) => Resolved(c)' /\ result'[c] = result[c]]_vars

\* C7 witness: one call was exhausted after two requests and another call,
\* given an empty list, was exhausted at once.
C7_Witness ==
    \E c, d \in Calls :
        /\ c # d
        /\ Exhausted(c) /\ Len(requests[c]) >= 2
        /\ Exhausted(d) /\ supplied[d] = <<>>

\* C8: if no host succeeds and some host answered with a non-2xx status, the
\* response of the result is the first non-2xx response received.
C8_FirstNon2xxReturned ==
    \A c \in Calls :
        (Exhausted(c) /\ Non2xx(result[c].responsesFailed) # <<>>) =>
            result[c].response = Head(Non2xx(result[c].responsesFailed))

(***************************************************************************)
(* Claims about the registry signature.                                    *)
(***************************************************************************)
WellFormed(dk, d, r) == Len(dk) = 32 /\ Len(d) <= 86 /\ InU64(r)
SignedOk == regPc # "start" /\ regPc # "idle" /\ signed.err = Null /\ ~signed.threw

\* the byte string datakey ++ u64le(len(data)) ++ data ++ u64le(revision)
EntryBytes(dk, d, r) ==
    dk \o encodeU64(BigInt(Len(d))).bytes \o d \o encodeU64(r).bytes

\* C9: for a 32-byte datakey, data of at most 86 bytes and a revision in
\* [0, 2^64), signing succeeds and signs the hash of
\* datakey ++ u64le(len(data)) ++ data ++ u64le(revision); verification with
\* the signer's public key and the same fields accepts the signature, and
\* with the same key and datakey but other data or another revision the
\* hashed bytes differ and the signature is rejected.
C9_SignatureRoundTrip ==
    /\ (regPc # "start" /\ regPc # "idle"
          /\ WellFormed(entry.dataKey, entry.data, entry.revision)) =>
          /\ SignedOk
          /\ signed.sig.signer = entry.secretKey
          /\ signed.sig.msg =
                blake2b(EntryBytes(entry.dataKey, entry.data, entry.revision))
    /\ (regPc = "verified" /\ SignedOk
          /\ WellFormed(check.datakey, check.data, check.revision)
          /\ check.pubkey = entry.secretKey /\ check.datakey = entry.dataKey) =>
          /\ ~verdict.threw
          /\ verdict.ok <=> (check.data = entry.data /\ check.revision = entry.revision)
          /\ (check.data # entry.data \/ check.revision # entry.revision) =>
                EntryBytes(check.datakey, check.data, check.revision)
                    # EntryBytes(entry.dataKey, entry.data, entry.revision)

\* C9 witness: a signature over non-empty data and the revision 2^64 - 1
\* was accepted for the same fields.
C9_Witness ==
    /\ regPc = "verified" /\ SignedOk
    /\ entry.data # <<>> /\ Len(entry.revision.mag) = 8
    /\ check = [pubkey |-> entry.secretKey, datakey |-> entry.dataKey,
                data |-> entry.data, revision |-> entry.revision, sig |-> signed.sig]
    /\ verdict.ok

\* C10: verifyRegistrySignature never throws, whatever the lengths of its
\* inputs and whatever the revision.
C10_VerifyNeverThrows ==
    regPc = "verified" => ~verdict.threw

\* C11: verifyRegistrySignature is fail-closed: it does not accept when the
\* datakey is not exactly 32 bytes, the data is longer than 86 bytes or the
\* revision is outside [0, 2^64); a signature valid for a 32-byte datakey is
\* not accepted for a datakey of another length.
C11_VerifyFailClosed ==
    (regPc = "verified" /\ ~WellFormed(check.datakey, check.data, check.revision)) =>
        ~verdict.ok

\* C12: computeRegistrySignature returns an error and the empty signature
\* (nothing is signed) when data is longer than 86 bytes or the revision is
\* not an unsigned 64-bit integer; for data of 0..86 bytes and a revision in
\* range it returns a signature by the secret key and a null error.
C12_SignErrorsAsValues ==
    (regPc # "start" /\ regPc # "idle") =>
        /\ ~signed.threw
        /\ (Len(entry.data) > 86 \/ ~InU64(entry.revision)) =>
              signed.err # Null /\ signed.sig = EmptySig
        /\ (Len(entry.data) <= 86 /\ InU64(entry.revision)) =>
              /\ signed.err = Null
              /\ signed.sig # EmptySig
              /\ signed.sig.signer = entry.secretKey

\* C12 witness: data of 87 bytes with a revision in range was refused, the
\* call returning an error and the empty signature.
C12_Witness ==
    /\ regPc = "signed"
    /\ Len(entry.data) = 87 /\ InU64(entry.revision)
    /\ signed.err # Null /\ signed.sig = EmptySig

(***************************************************************************)
(* Claims about the key derivation, entry IDs and resolver links.          *)
(***************************************************************************)
BothCalls == {callOne, callTwo}
KeysCall(c) == c.fn \in KeysFns
Accepted(c) == KeysCall(c) /\ c.out.err = Null
TagsOf(c) == <<c.args[2], c.args[3]>>
\* the bytes hashed into the datakey and into the keypair entropy
HashedForDatakey(c) == c.out.datakey.of.sha512
HashedForKeypair(c) == c.out.keypair.publicKey.publicKeyOf.of.sha512

\* C13: two distinct (keypairTag, datakeyTag) pairs accepted with the same
\* seed never give the same bytes to hash for the datakey; these bytes are
\* seed ++ one length byte ++ keypairTag bytes ++ datakeyTag bytes, and the
\* length byte equals the byte length of the encoded keypair tag.
C13_TagPairsNeverCollide ==
    /\ \A c \in BothCalls :
          Accepted(c) =>
              /\ HashedForDatakey(c) =
                     c.args[1] \o <<HashedForDatakey(c)[Len(c.args[1]) + 1]>>
                         \o TextEncoderEncode(c.args[2]) \o TextEncoderEncode(c.args[3])
              /\ HashedForDatakey(c)[Len(c.args[1]) + 1] =
                     Len(TextEncoderEncode(c.args[2]))
    /\ (Accepted(callOne) /\ Accepted(callTwo) /\ callOne.args[1] = callTwo.args[1]
          /\ TagsOf(callOne) # TagsOf(callTwo)) =>
              HashedForDatakey(callOne) # HashedForDatakey(callTwo)

\* C14: for a fixed seed the keypair depends only on the keypair tag:
\* another datakey tag with the same keypair tag gives the same keypair and
\* another datakey, another keypair tag gives another keypair and (with the
\* same datakey tag) another datakey, and equal inputs give equal results.
C14_KeypairDependsOnKeypairTag ==
    (Accepted(callOne) /\ Accepted(callTwo)) =>
        /\ callOne.args = callTwo.args => callOne.out = callTwo.out
        /\ callOne.args[2] = callTwo.args[2] =>
              /\ callOne.out.keypair = callTwo.out.keypair
              /\ callOne.args[3] # callTwo.args[3] =>
                    callOne.out.datakey # callTwo.out.datakey
        /\ callOne.args[2] # callTwo.args[2] =>
              /\ callOne.out.keypair # callTwo.out.keypair
              /\ callOne.out.keypair.publicKey # callTwo.out.keypair.publicKey
              /\ HashedForKeypair(callOne) # HashedForKeypair(callTwo)
              /\ callOne.args[3] = callTwo.args[3] =>
                    callOne.out.datakey # callTwo.out.datakey

\* C14 witness: two accepted derivations from one seed with the same
\* non-empty datakey tag and different non-empty keypair tags.
C14_Witness ==
    /\ Accepted(callOne) /\ Accepted(callTwo)
    /\ callOne.args[2] # callTwo.args[2] /\ callOne.args[3] = callTwo.args[3]
    /\ callOne.args[2] # <<>> /\ callTwo.args[2] # <<>> /\ callOne.args[3] # <<>>

\* C15: the derivations return errors as values and no key material with an
\* error: taggedRegistryEntryKeys returns an error, an empty datakey and no
\* keys for a seed that is not 16 bytes or a keypair tag of more than 255
\* characters; deriveRegistryEntryID returns an error and an empty ID for a
\* pubkey or datakey that is not 32 bytes.
C15_ErrorsCarryNoKeyMaterial ==
    \A c \in BothCalls :
        /\ KeysCall(c) =>
              /\ (Len(c.args[1]) # 16 \/ Len(c.args[2]) > 255) => c.out.err # Null
              /\ c.out.err # Null =>
                    /\ c.out.datakey = nu8
                    /\ c.out.keypair \in {EmptyObject, nkp}
        /\ c.fn = "deriveRegistryEntryID" =>
              /\ (Len(c.args[1]) # 32 \/ Len(c.args[2]) # 32) => c.out.err # Null
              /\ c.out.err # Null => c.out.id = nu8

\* C15 witness: a 16-byte seed with a keypair tag of 256 characters was
\* refused, and the same seed was accepted with a tag of 255 characters.
C15_Witness ==
    /\ KeysCall(callOne) /\ KeysCall(callTwo)
    /\ Len(callOne.args[1]) = 16
    /\ Len(callOne.args[2]) = 256 /\ callOne.out.err # Null
    /\ Len(callTwo.args[2]) = 255 /\ callTwo.out.err = Null

EntryIDCall(c) == c.fn = "deriveRegistryEntryID"
Derived(c) == EntryIDCall(c) /\ c.out.err = Null
\* the bytes hashed into the entry ID
HashedForEntryID(c) == c.out.id.blake2b

\* C16: deriveRegistryEntryID is deterministic and, for 32-byte inputs, the
\* hashed bytes are injective in (pubkey, datakey): two calls with different
\* pubkeys or different datakeys hash different bytes.
C16_EntryIDInjective ==
    /\ (EntryIDCall(callOne) /\ EntryIDCall(callTwo) /\ callOne.args = callTwo.args) =>
          callOne.out = callTwo.out
    /\ (Derived(callOne) /\ Derived(callTwo) /\ callOne.args # callTwo.args) =>
          /\ HashedForEntryID(callOne) # HashedForEntryID(callTwo)
          /\ callOne.out.id # callTwo.out.id

\* C16 witness: two entry IDs were derived whose pubkey and datakey are
\* exchanged.
C16_Witness ==
    /\ Derived(callOne) /\ Derived(callTwo)
    /\ callOne.args[1] # callOne.args[2]
    /\ callTwo.args = <<callOne.args[2], callOne.args[1]>>

\* C17 as stated: the hashed bytes are the 7-byte specifier "ed25519", the
\* 8-byte little-endian encoding of 32, the pubkey and the datakey.
C17_SevenByteSpecifier ==
    \A c \in BothCalls :
        Derived(c) =>
            HashedForEntryID(c) =
                Specifier \o <<32, 0, 0, 0, 0, 0, 0, 0>> \o c.args[1] \o c.args[2]

\* C17 amended: the hashed bytes are 88 bytes: a 16-byte specifier field
\* holding "ed25519" and nine zero bytes, the 8-byte little-endian encoding
\* of 32, the 32-byte pubkey and the 32-byte datakey.
C17_SixteenByteSpecifierField ==
    \A c \in BothCalls :
        Derived(c) =>
            /\ Len(HashedForEntryID(c)) = 88
            /\ HashedForEntryID(c) =
                   <<101, 100, 50, 53, 53, 49, 57>> \o <<0, 0, 0, 0, 0, 0, 0, 0, 0>>
                       \o <<32, 0, 0, 0, 0, 0, 0, 0>> \o c.args[1] \o c.args[2]

\* C17 witness: an entry ID was derived from a pubkey and a datakey that
\* are not all zero.
C17_Witness ==
    /\ Derived(callOne)
    /\ callOne.args[1] = Fill(32, 1)
    /\ callOne.args[2] = Fill(32, 1)

LinkCall(c) == c.fn \in LinkFns

\* C18: for a 32-byte entry ID entryIDToSkylink and resolverLink return the
\* same link; it decodes to 34 bytes whose byte 0 is 1, byte 1 is 0 and
\* bytes 2..33 are the entry ID; resolverLink returns an error and an empty
\* link for an entry ID that is not 32 bytes.
C18_ResolverLinkAddress ==
    /\ \A c \in BothCalls :
          (LinkCall(c) /\ Len(c.args[1]) = 32) =>
              /\ ~c.out.threw /\ c.out.err = Null
              /\ Len(c.out.link) = 46
              /\ LET address == skylinkToResolverEntryData(c.out.link) IN
                     /\ address.err = Null
                     /\ Len(address.buf) = 34
                     /\ address.buf[1] = 1
                     /\ address.buf[2] = 0
                     /\ SubSeq(address.buf, 3, 34) = c.args[1]
    /\ (LinkCall(callOne) /\ LinkCall(callTwo) /\ Len(callOne.args[1]) = 32
          /\ callOne.args = callTwo.args) =>
              callOne.out = callTwo.out
    /\ \A c \in BothCalls :
          (c.fn = "resolverLink" /\ Len(c.args[1]) # 32) =>
              /\ c.out.err # Null /\ ~c.out.threw
              /\ c.out.link = <<>>

\* C18 witness: both functions were called with the same 32-byte entry ID
\* of mixed bytes.
C18_Witness ==
    /\ callOne.fn = "entryIDToSkylink" /\ callTwo.fn = "resolverLink"
    /\ callOne.args = callTwo.args
    /\ Len(callOne.args[1]) = 32
    /\ callOne.args[1] # Zeros(32) /\ callOne.args[1] # Fill(32, 255)
    /\ callOne.out.link = callTwo.out.link

(***************************************************************************)
(* Claims about seed phrases.                                              *)
(***************************************************************************)
Generators == {"generateSeedPhrase", "generateSeedPhraseDeterministic"}
WasValidated == validated # NoValidation
PhraseWords == Split(generated.phrase)

\* C19: a phrase returned without error by generateSeedPhrase (random and
\* password path) or generateSeedPhraseDeterministic has exactly 15 words,
\* its two checksum words are those of the 16-byte seed of its entropy
\* words, and validSeedPhrase accepts it and returns that seed.
C19_GeneratedPhrasesValidate ==
    (generated.fn \in Generators /\ generated.err = Null) =>
        /\ Len(PhraseWords) = 15
        /\ Len(generated.seed) = 16
        /\ generated.seed = seedWordsToSeed(SubSeq(PhraseWords, 1, 13)).seed
        /\ PhraseWords[14] = seedToChecksumWords(generated.seed).one
        /\ PhraseWords[15] = seedToChecksumWords(generated.seed).two
        /\ WasValidated =>
              validated = [seed |-> generated.seed, err |-> Null, threw |-> FALSE]

\* C19 witness: a phrase of the random path, made from bytes that are not
\* all equal, was validated.
C19_Witness ==
    /\ generated.fn = "generateSeedPhrase"
    /\ Len(generated.input) = 24
    /\ generated.input[1] # generated.input[2]
    /\ WasValidated
    /\ validated.err = Null

\* C20: for a 16-byte seed, the phrase made of the words at the twelve
\* 10-bit indices and the final 8-bit index of its bits (most significant
\* bit first) and of seedToChecksumWords(seed) is accepted by
\* validSeedPhrase, which returns that seed; seedWordsToSeed handles exactly
\* 128 bits and stores no byte past byte 15.
C20_SeedPhraseRoundTrip ==
    /\ generated.fn = "PhraseOfSeed" =>
          /\ generated.err = Null
          /\ Len(PhraseWords) = 15
          /\ seedWordsToSeed(SubSeq(PhraseWords, 1, 13)).seed = generated.input
          /\ WasValidated =>
                validated = [seed |-> generated.input, err |-> Null, threw |-> FALSE]
    /\ (generated # NoPhrase /\ generated.err = Null) =>
          LET loop == seedWordsToSeed(SubSeq(PhraseWords, 1, 13)) IN
              /\ loop.err = Null
              /\ Len(loop.seed) = 16
              /\ loop.written = 128
              /\ loop.curByte = 16 /\ loop.curBit = 0
              /\ loop.stores \subseteq 0..15

\* C20 witness: the phrase of a seed whose last byte is neither 0 nor 255
\* was validated and gave the seed back.
C20_Witness ==
    /\ generated.fn = "PhraseOfSeed"
    /\ generated.input[16] # 0 /\ generated.input[16] # 255
    /\ WasValidated
    /\ validated.seed = generated.input

TypedWords == Split(typed)
WasRestored == restored # NoValidation

\* C21: validSeedPhrase never throws: for every phrase, the empty string
\* and phrases of 13 or 14 words included, it returns; a phrase of fewer
\* than 15 words is answered with an error value.
C21_ValidSeedPhraseTotal ==
    /\ WasValidated => ~validated.threw
    /\ WasRestored =>
          /\ ~restored.threw
          /\ Len(TypedWords) < 15 => restored.err # Null

\* C22: validSeedPhrase returns a seed only for a phrase of exactly 15
\* words; a phrase with fewer or more words is not accepted.
C22_ExactlyFifteenWords ==
    (WasRestored /\ Len(TypedWords) # 15) =>
        ~(restored.err = Null /\ ~restored.threw /\ restored.seed # nu8)

\* the typed phrase is the generated one with the word at position i
\* replaced by a dictionary word of another prefix
OneWordReplaced(i) ==
    /\ Len(TypedWords) = Len(PhraseWords)
    /\ \A k \in 1..Len(PhraseWords) : k # i <=> TypedWords[k] = PhraseWords[k]
    /\ WordIndex(TypedWords[i]) # -1
    /\ prefix(TypedWords[i]) # prefix(PhraseWords[i])

\* C23: validSeedPhrase returns an error and an empty seed when one of the
\* 13 entropy words has the prefix of no dictionary word, and when the
\* prefix of the first or, the first being right, of the second checksum
\* word differs from the prefix of the checksum word recomputed from the
\* decoded seed; every error comes with an empty seed, and a valid phrase
\* with a checksum word replaced by a dictionary word of another prefix is
\* refused.
C23_WrongWordsRefused ==
    WasRestored =>
        LET typedSeed == seedWordsToSeed(SubSeq(TypedWords, 1, 13))
            typedChecksum == seedToChecksumWords(typedSeed.seed)
        IN
        /\ restored.err # Null => restored.seed = nu8 /\ ~restored.threw
        /\ (Len(TypedWords) >= 13
               /\ \E i \in 1..13 : WordIndex(TypedWords[i]) = -1) =>
              restored = ValidErr("unable to parse seed phrase")
        /\ (Len(TypedWords) >= 14 /\ typedSeed.err = Null
               /\ prefix(TypedWords[14]) # prefix(typedChecksum.one)) =>
              restored = ValidErr("first checksum word is invalid")
        /\ (Len(TypedWords) >= 15 /\ typedSeed.err = Null
               /\ prefix(TypedWords[14]) = prefix(typedChecksum.one)
               /\ prefix(TypedWords[15]) # prefix(typedChecksum.two)) =>
              restored = ValidErr("second checksum word is invalid")
        /\ (generated.fn \in Generators /\ (OneWordReplaced(14) \/ OneWordReplaced(15))) =>
              restored.err # Null /\ restored.seed = nu8

\* C23 witness: a generated phrase was typed with its second checksum word
\* replaced by another dictionary word and was refused for that word.
C23_Witness ==
    /\ generated.fn \in Generators
    /\ OneWordReplaced(15)
    /\ restored = ValidErr("second checksum word is invalid")

\* C25: a phrase of generateSeedPhraseDeterministic has as word i, for the
\* first twelve words, the dictionary word at byte i of the password digest
\* modulo the dictionary size, and as 13th word the word at byte 12 modulo a
\* quarter of the dictionary size; the index of the 13th word is below 256
\* and is the last byte of the seed.
C25_LastWordInFirstQuarter ==
    (generated.fn = "generateSeedPhraseDeterministic" /\ generated.err = Null) =>
        LET digest == sha512(TextEncoderEncode(generated.input)) IN
        /\ \A i \in 1..12 :
              PhraseWords[i] = dictionary(DigestByte(digest, i - 1) % DictionaryLength)
        /\ PhraseWords[13] =
              dictionary(DigestByte(digest, 12) % (DictionaryLength \div 4))
        /\ WordIndex(PhraseWords[13]) < 256
        /\ generated.seed[16] = WordIndex(PhraseWords[13])

\* C25 witness: a phrase was generated from a password of two characters.
C25_Witness ==
    /\ generated.fn = "generateSeedPhraseDeterministic"
    /\ generated.err = Null
    /\ Len(generated.input) = 2
    /\ WordIndex(PhraseWords[13]) > 0

(***************************************************************************)
(* Claims about the checksum words, the skylink bitfield and skyfile       *)
(* paths.                                                                  *)
(***************************************************************************)
ChecksumCall(c) == c.fn = "seedToChecksumWords"
\* the bits of the hash, bit 0 being the highest bit of byte 0
HashBits(c) == SeedBits(c.args[2])

\* C24: for a 16-byte seed and every hash, seedToChecksumWords returns the
\* dictionary words at the numbers made of bits [0,10) and of bits [10,20)
\* of the hash: byte 0 with the top 2 bits of byte 1, and the low 6 bits of
\* byte 1 with the high 4 bits of byte 2, both in 0..1023; a seed of
\* another length gives an error and no words.
C24_ChecksumWordBits ==
    ChecksumCall(callOne) =>
        LET seed == callOne.args[1]
            h == callOne.args[2]
            out == callOne.out
        IN  /\ Len(seed) = 16 =>
                  /\ out.err = Null
                  /\ out.one = dictionary(BitsValue(SubSeq(HashBits(callOne), 1, 10)))
                  /\ out.two = dictionary(BitsValue(SubSeq(HashBits(callOne), 11, 20)))
                  /\ prefix(out.one) = h[1] * 4 + h[2] \div 64
                  /\ prefix(out.two) = (h[2] % 64) * 16 + h[3] \div 16
                  /\ prefix(out.one) \in 0..1023
                  /\ prefix(out.two) \in 0..1023
            /\ Len(seed) # 16 =>
                  /\ out.err # Null
                  /\ out.one = EmptyWord /\ out.two = EmptyWord

\* C24 witness: the words of a hash starting with the bytes 1, 192, 240 are
\* the words 7 and 15.
C24_Witness ==
    /\ ChecksumCall(callOne)
    /\ Len(callOne.args[1]) = 16
    /\ callOne.args[2] = <<1, 192, 240>>
    /\ callOne.out.one = dictionary(7)
    /\ callOne.out.two = dictionary(15)

BitfieldCall(c) == c.fn = "skylinkV1Bitfield"
Built(c) == BitfieldCall(c) /\ c.args[1] <= SectorSize

\* C26: for every size n up to the sector size the bitfield of
\* skylinkV1Bitfield(n) parses to version 1, offset 0 and the smallest
\* breakpoint that is not below n; the breakpoints are the multiples of 4096
\* up to 32768, then 36864..65536 by 4096, 73728..131072 by 8192 and so on
\* up to 4194304; the fetch size is never below n and does not decrease
\* when n grows; a larger size gives an error and no bitfield.
C26_BitfieldRoundTrip ==
    /\ \A c \in BothCalls :
          /\ Built(c) =>
                /\ c.out.built.err = Null
                /\ Len(c.out.built.bitfield) = 2
                /\ c.out.parsed.err = Null
                /\ c.out.parsed.version = 1
                /\ c.out.parsed.offset = 0
                /\ c.out.parsed.fetchSize \in Breakpoints
                /\ c.out.parsed.fetchSize >= c.args[1]
                /\ \A b \in Breakpoints : b >= c.args[1] => c.out.parsed.fetchSize <= b
          /\ (BitfieldCall(c) /\ ~Built(c)) =>
                c.out.built.err # Null /\ c.out.built.bitfield = nu8
    /\ (Built(callOne) /\ Built(callTwo) /\ callOne.args[1] <= callTwo.args[1]) =>
          callOne.out.parsed.fetchSize <= callTwo.out.parsed.fetchSize
    /\ {4096 * k : k \in 1..16} \cup {65536 + 8192 * k : k \in 1..8} \subseteq Breakpoints
    /\ Cardinality(Breakpoints) = 64
    /\ \A b \in Breakpoints : b <= 4194304

\* C26 witness: the sizes 4097 and 3407873 were built and parsed to 8192
\* and 3670016.
C26_Witness ==
    /\ Built(callOne) /\ Built(callTwo)
    /\ callOne.args[1] = 4097 /\ callOne.out.parsed.fetchSize = 8192
    /\ callTwo.args[1] = 3407873 /\ callTwo.out.parsed.fetchSize = 3670016

PathCall(c) == c.fn = "validateSkyfilePath"
\* position i of a path is before its start, behind its end, or a slash
Delimits(path, i) == i = 0 \/ i = Len(path) + 1 \/ path[i] = Slash
\* one of the segments between two delimiters is "", "." or ".."
HasBadSegment(path) ==
    \E i \in 0..Len(path) :
        /\ Delimits(path, i)
        /\ \/ Delimits(path, i + 1)
           \/ i + 2 <= Len(path) + 1 /\ path[i + 1] = Dot /\ Delimits(path, i + 2)
           \/ /\ i + 3 <= Len(path) + 1
              /\ path[i + 1] = Dot /\ path[i + 2] = Dot
              /\ Delimits(path, i + 3)

\* C27: validateSkyfilePath returns null exactly for the non-empty paths
\* none of whose segments between slashes is "", "." or ".."; these are
\* never ".", ".." or paths starting with "/", "./" or "../"; "", ".", "./",
\* "a//a", "a/./a", "a/../a", "../a/a", "/sometrial" and "sometrial/" get an
\* error and "test/subtrial.ext" gets none.
C27_PathValidation ==
    PathCall(callOne) =>
        LET path == callOne.args[1]
            ok == callOne.out.err = Null
        IN  /\ ok <=> ~HasBadSegment(path)
            /\ ok => /\ path # <<>> /\ path # <<Dot>> /\ path # <<Dot, Dot>>
                     /\ ~StartsWith(path, <<Slash>>)
                     /\ ~StartsWith(path, <<Dot, Slash>>)
                     /\ ~StartsWith(path, <<Dot, Dot, Slash>>)
                     /\ path[Len(path)] # Slash
            /\ path \in {<<>>, <<Dot>>, <<Dot, Slash>>, <<97, 47, 47, 97>>,
                         <<97, 47, 46, 47, 97>>, <<97, 47, 46, 46, 47, 97>>,
                         <<46, 46, 47, 97, 47, 97>>,
                         <<47, 115, 111, 109, 101, 116, 114, 105, 97, 108>>,
                         <<115, 111, 109, 101, 116, 114, 105, 97, 108, 47>>} => ~ok
            /\ path = <<116, 101, 115, 116, 47, 115, 117, 98, 116, 114, 105, 97,
                        108, 46, 101, 120, 116>> => ok

\* C27 witness: the path "a/./a" was refused for its "." element.
C27_Witness ==
    /\ PathCall(callOne)
    /\ callOne.args[1] = <<97, 47, 46, 47, 97>>
    /\ callOne.out.err = "path cannot have a . element"

(***************************************************************************)
(* Claims about upload                                                     *)
(***************************************************************************)
UploadResolved(c) == up[c].state = "resolved"
UploadStarted(c) == up[c].state \in {"fetching", "reading"}
UploadSettled(c) == up[c].state \in {"resolved", "rejected"}

\* C28: upload resolves with no other skylink than the one it computed
\* from the file data and the metadata; a response whose skylink is missing
\* or different is a failed host and never reaches the caller.
C28_OnlyLocalSkylink ==
    \A c \in Calls :
        /\ UploadResolved(c) => up[c].value = up[c].skylink
        /\ up[c].state \in {"reading", "resolved"} => result[c].response.verified

\* C29: every upload that called progressiveFetch settles its promise: it
\* resolves after a verified response and rejects when the portals are
\* exhausted; it is never left pending, and no exception escapes a handler.
C29_UploadSettles ==
    /\ \A c \in Calls : UploadStarted(c) ~> UploadSettled(c)
    /\ [](\A c \in Calls : up[c].state # "unhandled")

(***************************************************************************)
(* Claims about readEntry                                                  *)
(***************************************************************************)
\* the checks of the claim, in its words: status 200, a string data that
\* hex-decodes, a numeric revision, a string signature that hex-decodes and
\* verifies for the caller's publicKey and dataKey
PassesRegistryChecks(resp, input) ==
    /\ resp.status = 200
    /\ resp.body.json = "object"
    /\ resp.body.data.type = "string"
    /\ hexToBuf(resp.body.data.val).err = Null
    /\ resp.body.revision.type = "number"
    /\ ~BigIntOf(resp.body.revision).threw
    /\ resp.body.signature.type = "string"
    /\ hexToSig(resp.body.signature.val).err = Null
    /\ LET v == verifyRegistrySignature(input.publicKey.key, input.dataKey.bytes,
                    hexToBuf(resp.body.data.val).buf, BigIntOf(resp.body.revision).big,
                    hexToSig(resp.body.signature.val).buf)
       IN  ~v.threw /\ v.ok
AnsweredExists == aq.answer.kind = "accept" /\ aq.answer.exists

\* C30: readEntry answers exists:true only with the data and revision of a
\* response that passed every check (status 200, string data and string
\* signature that hex-decode, numeric revision, signature valid for the
\* caller's publicKey and dataKey); a response failing a check is a failed
\* host and is never the result of the fetch.
C30_ExistsOnlyAfterVerification ==
    /\ aq.success => PassesRegistryChecks(aq.response, aq.callerInput)
    /\ AnsweredExists =>
          /\ aq.success
          /\ aq.answer.data = aq.response.body.data
          /\ aq.answer.revision = BigIntOf(aq.response.body.revision).big
    /\ Len(aq.portalsFailed) = Len(aq.responsesFailed)
\* an entry is answered after portals answered with responses that fail a
\* check
C30_Witness ==
    /\ AnsweredExists
    /\ Len(aq.responsesFailed) >= 2
    /\ \E i \in 1..Len(aq.responsesFailed) :
          aq.responsesFailed[i].status = 200
              /\ aq.responsesFailed[i].body.json = "object"

AnsweredAbsent == aq.answer.kind = "accept" /\ ~aq.answer.exists
Has404 == \E i \in 1..Len(aq.responsesFailed) : aq.responsesFailed[i].status = 404

\* C31: readEntry answers exists:false only when every portal was tried
\* without a verified success and a failed response had status 404; without
\* a 404 the exhausted fetch is rejected; absence is never reported while a
\* portal is untried or after a verified entry.
C31_AbsentOnlyAfterExhaustion ==
    /\ AnsweredAbsent =>
          /\ ~aq.success
          /\ aq.remainingPortals = <<>>
          /\ Has404
          /\ aq.answer.revision = BigInt(0)
    /\ (aq.state = "done" /\ ReadInputErr(aq.callerInput) = Null
            /\ ~aq.success /\ ~Has404) =>
          aq.answer = Reject("unable to read registry entry")
\* absence is answered after a 404 and a failure that is no 404
C31_Witness ==
    /\ AnsweredAbsent
    /\ Len(aq.responsesFailed) >= 2
    /\ \E i \in 1..Len(aq.responsesFailed) : aq.responsesFailed[i].status # 404

(***************************************************************************)
(* Claims about message handling                                           *)
(***************************************************************************)
\* C32: at most one response is posted for a message handled by
\* handleMessage, whatever the handler calls, throws or schedules; a method
\* without handler gets exactly one error response and no handler runs.
C32_AtMostOneResponse ==
    /\ Len(km.posted) <= 1
    /\ (km.state = "handled" /\ km.method \notin Router) =>
          km.posted = <<ResponseMsg(km.nonce, TRUE)>> /\ ~km.ran

\* the responses handled so far that carried the nonce of query i, in order
ResponsesFor(i) ==
    {r \in 1..Len(kq.log) : kq.log[r].nonce = kq.nonceOf[i]
                              /\ \A j \in 1..Len(kq.log) :
                                    kq.log[j].query = i => j <= r}

\* C33: every query of newKernelQuery has a nonce no other query has used,
\* is in the table when its message is posted, and is resolved at most
\* once, by the first response with its nonce after it was opened, which
\* removes it from the table; a response with the nonce of no open query
\* resolves nothing and leaves the table as it is.
C33_QueriesResolvedOnce ==
    /\ \A i, j \in 1..Len(kq.nonceOf) : kq.nonceOf[i] = kq.nonceOf[j] => i = j
    /\ \A i \in 1..Len(kq.posted) : kq.posted[i].open
    /\ \A i \in 1..Len(kq.resolved) :
          /\ Len(kq.resolved[i]) <= 1
          /\ (Len(kq.resolved[i]) = 0) = HasKey(kq.queries, kq.nonceOf[i])
          /\ \A k \in 1..Len(kq.resolved[i]) :
                LET r == kq.resolved[i][k].response IN
                /\ kq.log[r].nonce = kq.nonceOf[i]
                /\ kq.log[r].query = i
                /\ \A e \in kq.log[r].before : e.query = i => e.nonce = kq.nonceOf[i]
    /\ \A r \in 1..Len(kq.log) :
          IF kq.log[r].nonce \in 0..MaxQueries /\ HasKey(kq.log[r].before, kq.log[r].nonce)
          THEN /\ kq.log[r].query = Lookup(kq.log[r].before, kq.log[r].nonce)
               /\ kq.log[r].after =
                     kq.log[r].before \ {[nonce |-> kq.log[r].nonce, query |-> kq.log[r].query]}
          ELSE /\ kq.log[r].query = 0
               /\ kq.log[r].after = kq.log[r].before
\* two queries are open, one was resolved, and a response for the closed
\* query came again
C33_Witness ==
    /\ Len(kq.nonceOf) = 3
    /\ \E i \in 1..3 : Len(kq.resolved[i]) = 1
    /\ \E r \in 2..Len(kq.log) :
          kq.log[r].query = 0 /\ kq.log[r].nonce \in 0..2
             /\ \E j \in 1..(r - 1) : kq.log[j].nonce = kq.log[r].nonce /\ kq.log[j].query # 0

(***************************************************************************)
(* Claims about the background page                                        *)
(***************************************************************************)
\* C34: when reloadKernel has run, every query that was open got a
\* cancellation response, the table of queries is empty and the reload of
\* the kernel frame is scheduled, for any number of open queries.
C34_ReloadCancelsEveryQuery ==
    bg.lastReload.ran =>
        /\ bg.lastReload.cancelled = bg.lastReload.open
        /\ bg.lastReload.empty
        /\ bg.lastReload.scheduled

\* C35: after reloadKernel has run, the kernel is marked loaded only by a
\* skynetKernelLoaded message of the reloaded kernel, no query is posted to
\* the frame before, and the promise is resolved at most once per load.
C35_OnlyReloadedKernelUnblocks ==
    /\ bg.kernelLoadedResolved => bg.loadedBy > bg.oldFrame
    /\ \A i \in 1..Len(bg.posts) : bg.posts[i].loadedBy > bg.posts[i].oldFrame
    /\ bg.resolutions <= 1

\* C36: a response of the kernel is delivered to the query that was posted
\* with its nonce and to no other, and no two open queries share a nonce.
C36_ResponseReachesItsQuery ==
    /\ \A i \in 1..Len(bg.delivered) : bg.delivered[i].query = bg.delivered[i].for
    /\ \A e, f \in bg.queries : e.nonce = f.nonce => e = f

(***************************************************************************)
(* Claims about the response filter                                        *)
(***************************************************************************)
\* C37: when the kernel overrides, its body is written to the filter exactly
\* once, no data of the server is written and the filter is closed,
\* whatever the number of chunks of the server; in every other case the
\* data of the server is written as it came and the filter is closed in
\* the end.
C37_FilterWritesOnceAndCloses ==
    /\ [](flt.answer = "override" =>
            /\ Len(flt.written) <= 1
            /\ \A i \in 1..Len(flt.written) : flt.written[i] = KernelBody)
    /\ (flt.answer = "override") ~> (flt.written = <<KernelBody>> /\ flt.closed)
    /\ [](flt.answer \notin {"pending", "override"} =>
            /\ Len(flt.written) <= Len(flt.served)
            /\ flt.written = SubSeq(flt.served, 1, Len(flt.written)))
    /\ (flt.answer \notin {"pending", "override"})
          ~> (flt.written = flt.served /\ flt.closed)

(***************************************************************************)
(* Claims about the bootloader                                             *)
(***************************************************************************)
\* C38: at most one load of the kernel is in progress, and after a load
\* failed (preferences, download or evaluation) kernelLoading is false and
\* an error was sent to the parent, so that loadSkynetKernel can start a
\* new load.
C38_FailedLoadCanBeRetried ==
    /\ boot.active <= 1
    /\ boot.lastFailure.failed =>
          /\ ~boot.lastFailure.kernelLoading
          /\ boot.lastFailure.sent \in {"kernelAuthStatus err", "log isErr"}

\* C39: every message with a nonce gets exactly one response in the end
\* (a message for another method than requestOverride and proxyInfo once
\* the kernel has loaded), never more than one, and a message without
\* nonce gets none.
C39_EveryMessageAnsweredOnce ==
    /\ [](\A n \in 1..Len(boot.inbox) :
             /\ boot.responses[n] <= 1
             /\ ~boot.inbox[n].hasNonce => boot.responses[n] = 0)
    /\ \A n \in 1..MaxMessages :
          (IF n <= Len(boot.inbox)
           THEN /\ boot.inbox[n].hasNonce
                /\ boot.inbox[n].method = "other" => boot.kernelHasLoaded
           ELSE FALSE)
             ~> (IF n <= Len(boot.inbox) THEN boot.responses[n] = 1 ELSE FALSE)

(***************************************************************************)
(* Claims about the entropy of a generated phrase                          *)
(***************************************************************************)
\* what randomBytes(24) can return, as far as one word can tell: the bytes
\* at the odd places and the bytes at the even places
RandomOf(odd, even) == [k \in 1..24 |-> IF k % 2 = 1 THEN odd ELSE even]

\* C40: on the null path of generateSeedPhrase each of the first twelve
\* words is the dictionary word at the index taken from the random bytes,
\* and every index 0..1023 of the dictionary is the index of that word for
\* some outcome of randomBytes(24).
C40_EveryWordIsPossible ==
    (generated.fn = "generateSeedPhrase" /\ Len(generated.input) = 24
        /\ generated.err = Null) =>
        \A i \in 1..(SEED_ENTROPY_WORDS - 1) :
            /\ PhraseWords[i] = dictionary(randomWordIndex(generated.input, i))
            /\ \A j \in 0..(DictionaryLength - 1) :
                  \E even \in 0..255 : \E odd \in 0..255 :
                      randomWordIndex(RandomOf(odd, even), i) = j

====
